---- MODULE Spec2Model ----
(***************************************************************************)
(* A model of flatbread's percentage-and-totals transforms                  *)
(* (flatbread/transforms/percentages.py, flatbread/transforms/totals.py,   *)
(* flatbread/chaining.py).  flatbread/percentages.py, an earlier copy of    *)
(* the percentages module, is left out: it decorates its functions with    *)
(* chaining.persist_ignored, which flatbread/chaining.py does not define,  *)
(* so it fails on import; its round_apportioned is the one modelled here.  *)
(*                                                                         *)
(* Numbers.  A cell is a float in the code.  The model keeps a cell as the  *)
(* binary64 value itself, sign, magnitude and exponent, and rounds the     *)
(* result of every arithmetic operation to 53 significant bits as the      *)
(* hardware does, so that 0.1 + 0.2 is 0.30000000000000004 here too.  NaN  *)
(* is pandas' null.  The arithmetic follows IEEE rules on the non-finite   *)
(* values (x/0 = +-inf, 0/0 = NaN, inf - inf = NaN).                       *)
(*                                                                         *)
(* Labels.  A label is a tagged value: Str(<<"T","o","t">>) is the string   *)
(* "Tot" kept as its characters, so that str.startswith can be computed.   *)
(***************************************************************************)
EXTENDS Integers, Sequences, FiniteSets, TLC

VARIABLES
    arg,    \* the value the last call received (a Series or a DataFrame)
    out,    \* the value the pipeline now holds: an input, or the last result
    hist    \* the calls made so far, oldest first: records [op |-> ..., ...]

vars == <<arg, out, hist>>

----------------------------------------------------------------------------
(* Bounds of the model.                                                    *)

MaxLen == 3         \* longest Series drawn as an input
MaxRows == 2        \* most data rows of a DataFrame drawn as an input
MaxDigits == 1      \* largest ndigits passed to a call
MaxIndex == 2       \* longest index handed to get_data_mask

----------------------------------------------------------------------------
(* Floats.  A cell is an IEEE-754 binary64 value, kept as <<s, m, e>>:     *)
(* the value s * m * 2^e with s the sign, e an integer and m the odd       *)
(* magnitude written in limbs of LimbBits bits, least significant first.   *)
(* Zero has s = 0; the non-finite values have the empty magnitude and      *)
(* e = 1.  Every operation computes the exact result and rounds it to 53   *)
(* significant bits, ties to even, as the hardware does.  Exponent         *)
(* overflow, subnormals and the sign of zero are outside the model.        *)

LimbBits == 15
Limb == 32768
Precision == 53

NaN == <<0, <<>>, 1>>
PosInf == <<1, <<>>, 1>>
NegInf == <<-1, <<>>, 1>>
Zero == <<0, <<>>, 0>>

Abs(n) == IF n < 0 THEN -n ELSE n
Sign(n) == IF n < 0 THEN -1 ELSE IF n > 0 THEN 1 ELSE 0
Max(a, b) == IF a < b THEN b ELSE a
Min(a, b) == IF a < b THEN a ELSE b

\* A sequence given position by position, held as the tuple of its cells.
AsTuple(f) == f \o <<>>

\* Magnitudes: naturals as tuples of limbs, no leading zero limb.
LimbAt(a, i) == IF i >= 1 /\ i <= Len(a) THEN a[i] ELSE 0

RECURSIVE BTrim(_)
BTrim(a) ==
    IF a = <<>> THEN a
    ELSE IF a[Len(a)] = 0 THEN BTrim(SubSeq(a, 1, Len(a) - 1))
    ELSE a

RECURSIVE BAddFrom(_, _, _, _)
BAddFrom(a, b, i, carry) ==
    IF i > Len(a) /\ i > Len(b) THEN (IF carry = 0 THEN <<>> ELSE <<carry>>)
    ELSE <<(LimbAt(a, i) + LimbAt(b, i) + carry) % Limb>>
         \o BAddFrom(a, b, i + 1, (LimbAt(a, i) + LimbAt(b, i) + carry) \div Limb)

BAdd(a, b) == BAddFrom(a, b, 1, 0)

RECURSIVE BSubFrom(_, _, _, _)
BSubFrom(a, b, i, borrow) ==
    IF i > Len(a) THEN <<>>
    ELSE <<(a[i] - LimbAt(b, i) - borrow) % Limb>>
         \o BSubFrom(a, b, i + 1, IF a[i] - LimbAt(b, i) - borrow < 0 THEN 1 ELSE 0)

\* a - b for a >= b.
BSub(a, b) == BTrim(BSubFrom(a, b, 1, 0))

RECURSIVE BCmpFrom(_, _, _)
BCmpFrom(a, b, i) ==
    IF i = 0 THEN 0
    ELSE IF a[i] < b[i] THEN -1
    ELSE IF a[i] > b[i] THEN 1
    ELSE BCmpFrom(a, b, i - 1)

BCmp(a, b) ==
    IF Len(a) < Len(b) THEN -1
    ELSE IF Len(a) > Len(b) THEN 1
    ELSE BCmpFrom(a, b, Len(a))

RECURSIVE BMulSmallFrom(_, _, _, _)
BMulSmallFrom(a, k, i, carry) ==
    IF i > Len(a) THEN (IF carry = 0 THEN <<>> ELSE <<carry>>)
    ELSE <<(a[i] * k + carry) % Limb>>
         \o BMulSmallFrom(a, k, i + 1, (a[i] * k + carry) \div Limb)

\* a * k for one limb k.
BMulSmall(a, k) == IF k = 0 THEN <<>> ELSE BMulSmallFrom(a, k, 1, 0)

ZeroLimbs(n) == AsTuple([i \in 1..n |-> 0])

RECURSIVE BMulFrom(_, _, _)
BMulFrom(a, b, i) ==
    IF i > Len(a) THEN <<>>
    ELSE BAdd(ZeroLimbs(i - 1) \o BMulSmall(b, a[i]), BMulFrom(a, b, i + 1))

BMul(a, b) == BMulFrom(a, b, 1)

\* a * 2^r for r below LimbBits.
BShlBits(a, r) ==
    BTrim(AsTuple([i \in 1..(Len(a) + 1) |->
        (LimbAt(a, i) % 2^(LimbBits - r)) * 2^r
        + LimbAt(a, i - 1) \div 2^(LimbBits - r)]))

\* a * 2^k.
BShl(a, k) ==
    IF a = <<>> \/ k = 0 THEN a
    ELSE ZeroLimbs(k \div LimbBits) \o BShlBits(a, k % LimbBits)

\* a \div 2^(q * LimbBits + r) for r below LimbBits.
BShrBits(a, q, r) ==
    IF q >= Len(a) THEN <<>>
    ELSE BTrim(AsTuple([i \in 1..(Len(a) - q) |->
             LimbAt(a, i + q) \div 2^r
             + (LimbAt(a, i + q + 1) % 2^r) * 2^(LimbBits - r)]))

\* a \div 2^k.
BShr(a, k) == IF k = 0 THEN a ELSE BShrBits(a, k \div LimbBits, k % LimbBits)

RECURSIVE SmallBitLen(_)
SmallBitLen(n) == IF n = 0 THEN 0 ELSE 1 + SmallBitLen(n \div 2)

BitLen(a) == IF a = <<>> THEN 0 ELSE LimbBits * (Len(a) - 1) + SmallBitLen(a[Len(a)])

RECURSIVE SmallTrailingZeros(_)
SmallTrailingZeros(n) == IF n % 2 = 1 THEN 0 ELSE 1 + SmallTrailingZeros(n \div 2)

RECURSIVE TrailingZerosFrom(_, _)
TrailingZerosFrom(a, i) ==
    IF a[i] = 0 THEN LimbBits + TrailingZerosFrom(a, i + 1)
    ELSE SmallTrailingZeros(a[i])

\* The number of zero bits below the lowest set bit of a # 0.
TrailingZeros(a) == TrailingZerosFrom(a, 1)

BitAt(a, i) ==
    IF i < 0 THEN 0
    ELSE (LimbAt(a, i \div LimbBits + 1) \div 2^(i % LimbBits)) % 2

IsOdd(a) == a # <<>> /\ a[1] % 2 = 1

RECURSIVE BDivSmallFrom(_, _, _, _)
\* The limbs of a \div k for one limb k, most significant first, and then
\* the remainder as a magnitude.
BDivSmallFrom(a, k, i, rem) ==
    IF i = 0 THEN <<IF rem = 0 THEN <<>> ELSE <<rem>>>>
    ELSE <<(rem * Limb + a[i]) \div k>>
         \o BDivSmallFrom(a, k, i - 1, (rem * Limb + a[i]) % k)

RECURSIVE Reverse(_)
Reverse(s) == IF s = <<>> THEN s ELSE Append(Reverse(Tail(s)), Head(s))

\* <<quotient, remainder>> from the quotient's limbs, most significant
\* first, followed by the remainder.
QuotRem(limbs) ==
    <<BTrim(Reverse(SubSeq(limbs, 1, Len(limbs) - 1))), limbs[Len(limbs)]>>

BDivSmall(a, k) == QuotRem(BDivSmallFrom(a, k, Len(a), 0))

RECURSIVE BDivLimb(_, _, _, _)
\* n steps of restoring division of r by d (r < 2d), one quotient bit a
\* step: <<the bits as a number, the remainder>>.
BDivLimb(r, d, q, n) ==
    IF n = 0 THEN <<q, r>>
    ELSE BDivLimb(BShl(IF BCmp(r, d) >= 0 THEN BSub(r, d) ELSE r, 1), d,
                  2 * q + (IF BCmp(r, d) >= 0 THEN 1 ELSE 0), n - 1)

RECURSIVE BDivLimbs(_, _, _)
BDivNext(top, d, n) == <<top[1]>> \o BDivLimbs(top[2], d, n - 1)

\* n limbs of the quotient of r by d, most significant first, and then the
\* remainder.
BDivLimbs(r, d, n) ==
    IF n = 0 THEN <<r>>
    ELSE BDivNext(BDivLimb(r, d, 0, LimbBits), d, n)

\* The float of sign s and magnitude m * 2^e, m # 0 of at most 53 bits.
CanonShift(s, m, e, t) == <<s, BShr(m, t), e + t>>
Canon(s, m, e) == IF m = <<>> THEN Zero ELSE CanonShift(s, m, e, TrailingZeros(m))

\* m \div 2^r rounded to nearest, ties to even, q being m \div 2^r and the
\* value rounded being m + f with 0 < f < 1 when sticky.
RoundedUp(m, r, q, sticky) ==
    IF BitAt(m, r - 1) = 1 /\ (sticky \/ TrailingZeros(m) < r - 1 \/ IsOdd(q))
    THEN BAdd(q, <<1>>)
    ELSE q

RoundDropping(s, m, e, sticky, r) ==
    Canon(s, IF r <= 0 THEN m ELSE RoundedUp(m, r, BShr(m, r), sticky),
          e + Max(r, 0))

\* Round to nearest, ties to even: the float nearest to s * (m + f) * 2^e,
\* where 0 < f < 1 when sticky and f = 0 otherwise.
RoundToFloat(s, m, e, sticky) ==
    RoundDropping(s, m, e, sticky, BitLen(m) - Precision)

\* The float of a small integer.
Num(n) == Canon(Sign(n), BTrim(<<Abs(n) % Limb, Abs(n) \div Limb>>), 0)

IsNaN(a) == a = NaN
IsFinite(a) == a[2] # <<>> \/ a = Zero
IsInf(a) == a = PosInf \/ a = NegInf

Neg(a) == <<-a[1], a[2], a[3]>>
AbsNum(a) == <<Abs(a[1]), a[2], a[3]>>

\* The sum of sa * x and sb * y, times 2^e, c comparing x with y.
AddCompared(sa, sb, x, y, e, c) ==
    IF sa = sb THEN RoundToFloat(sa, BAdd(x, y), e, FALSE)
    ELSE RoundToFloat(IF c > 0 THEN sa ELSE sb,
                      BSub(IF c > 0 THEN x ELSE y, IF c > 0 THEN y ELSE x),
                      e, FALSE)

AddAligned(sa, sb, x, y, e) == AddCompared(sa, sb, x, y, e, BCmp(x, y))

AddFinite(a, b, e) ==
    AddAligned(a[1], b[1], BShl(a[2], a[3] - e), BShl(b[2], b[3] - e), e)

Add(a, b) ==
    IF IsNaN(a) \/ IsNaN(b) THEN NaN
    ELSE IF IsInf(a) /\ IsInf(b) THEN (IF a = b THEN a ELSE NaN)
    ELSE IF IsInf(a) THEN a
    ELSE IF IsInf(b) THEN b
    ELSE IF a = Zero THEN b
    ELSE IF b = Zero THEN a
    ELSE AddFinite(a, b, Min(a[3], b[3]))

Sub(a, b) == Add(a, Neg(b))

Mul(a, b) ==
    IF IsNaN(a) \/ IsNaN(b) THEN NaN
    ELSE IF IsInf(a) \/ IsInf(b)
         THEN (IF a = Zero \/ b = Zero THEN NaN
               ELSE IF a[1] = b[1] THEN PosInf ELSE NegInf)
    ELSE IF a = Zero \/ b = Zero THEN Zero
    ELSE RoundToFloat(a[1] * b[1], BMul(a[2], b[2]), a[3] + b[3], FALSE)

RoundQuotient(s, qr, e) == RoundToFloat(s, qr[1], e, qr[2] # <<>>)

\* The quotient of the magnitudes a by b to 56 bits or more, d being the
\* difference of their bit lengths.
DivAligned(s, a, b, e, d) ==
    RoundQuotient(s,
        IF Len(b) = 1 THEN BDivSmall(BShl(a, Precision + 3 - d), b[1])
        ELSE QuotRem(BDivLimbs(BShl(a, Max(-d, 0)), BShl(b, Max(d, 0)), 4)),
        IF Len(b) = 1 THEN e - (Precision + 3 - d)
        ELSE e + d - (4 * LimbBits - 1))

\* a / b for finite non-zero a and b.
DivFinite(a, b) ==
    IF b[2] = <<1>> THEN <<a[1] * b[1], a[2], a[3] - b[3]>>
    ELSE DivAligned(a[1] * b[1], a[2], b[2], a[3] - b[3],
                    BitLen(a[2]) - BitLen(b[2]))

\* a / b as floats divide: a finite value over zero is +-inf, 0/0 is NaN.
Div(a, b) ==
    IF IsNaN(a) \/ IsNaN(b) THEN NaN
    ELSE IF IsInf(a) THEN (IF IsInf(b) THEN NaN
                           ELSE IF b[1] < 0 THEN Neg(a) ELSE a)
    ELSE IF IsInf(b) THEN Zero
    ELSE IF b = Zero THEN (IF a = Zero THEN NaN
                           ELSE IF a[1] > 0 THEN PosInf ELSE NegInf)
    ELSE IF a = Zero THEN Zero
    ELSE DivFinite(a, b)

\* The float nearest to n/d, as the literal n/d evaluates.
Frac(n, d) == Div(Num(n), Num(d))

\* a < b (a comparison with NaN is False).
Less(a, b) ==
    /\ ~IsNaN(a) /\ ~IsNaN(b)
    /\ a # b
    /\ IF IsInf(a) THEN a = NegInf
       ELSE IF IsInf(b) THEN b = PosInf
       ELSE Sub(a, b)[1] < 0

RECURSIVE Pow10(_)
Pow10(k) == IF k <= 0 THEN 1 ELSE 10 * Pow10(k - 1)

\* The integer nearest to s * m * 2^(-r), q being m \div 2^r.
RintDropping(s, m, r, q) ==
    Canon(s, IF BitAt(m, r - 1) = 1 /\ (r > 1 \/ IsOdd(q))
             THEN BAdd(q, <<1>>) ELSE q, 0)

\* rint: the nearest integer, a tie going to the even one.
Rint(a) ==
    IF ~IsFinite(a) \/ a = Zero \/ a[3] >= 0 THEN a
    ELSE RintDropping(a[1], a[2], -a[3], BShr(a[2], -a[3]))

\* a * scale when up, a / scale otherwise.
Scaled(a, scale, up) == IF up THEN Mul(a, scale) ELSE Div(a, scale)

RoundScaled(a, scale, up) == Scaled(Rint(Scaled(a, scale, up)), scale, ~up)

\* numpy's round(x, decimals): rint(x * 10^decimals) / 10^decimals, each
\* step a float operation; decimals = 0 is rint alone; a negative decimals
\* divides first and multiplies back.
RoundNum(a, ndigits) ==
    IF ndigits = 0 THEN Rint(a)
    ELSE RoundScaled(a, Num(Pow10(Abs(ndigits))), ndigits > 0)

----------------------------------------------------------------------------
(* Sequences of cells: what pandas does along one Series or one column.    *)

RECURSIVE SumSkipNa(_)
\* Series.sum(): nulls are skipped, an all-null or empty sum is 0.
SumSkipNa(v) ==
    IF v = <<>> THEN Zero
    ELSE LET rest == SumSkipNa(SubSeq(v, 1, Len(v) - 1))
             last == v[Len(v)]
         IN  IF IsNaN(last) THEN rest ELSE Add(rest, last)

FillNa0(v) ==
    AsTuple([i \in 1..Len(v) |-> IF IsNaN(v[i]) THEN Zero ELSE v[i]])

RECURSIVE CumSum(_)
CumSum(v) ==
    IF Len(v) <= 1 THEN v
    ELSE LET head == CumSum(SubSeq(v, 1, Len(v) - 1))
         IN  Append(head, Add(head[Len(head)], v[Len(v)]))

RoundSeq(v, ndigits) ==
    AsTuple([i \in 1..Len(v) |-> RoundNum(v[i], ndigits)])
Shift1(v) == AsTuple([i \in 1..Len(v) |-> IF i = 1 THEN NaN ELSE v[i - 1]])
SubSeqs(v, w) == AsTuple([i \in 1..Len(v) |-> Sub(v[i], w[i])])
MaskWhere(v, cond) ==
    AsTuple([i \in 1..Len(v) |-> IF cond[i] THEN NaN ELSE v[i]])
IsNaSeq(v) == AsTuple([i \in 1..Len(v) |-> IsNaN(v[i])])

----------------------------------------------------------------------------
(* Labels, Series and DataFrames.                                          *)

\* A str label, kept as its characters, and an int label.
Str(chars) == [t |-> "str", v |-> chars]
RECURSIVE Digits(_)
Digits(n) ==
    LET digit == <<"0", "1", "2", "3", "4", "5", "6", "7", "8", "9">>
    IN  IF n < 10 THEN <<digit[n + 1]>>
        ELSE Append(Digits(n \div 10), digit[(n % 10) + 1])
IntKey(n) == [t |-> "int", v |-> Digits(n)]
IsStr(k) == k.t = "str"

\* The parameter value None.
None == [t |-> "none", v |-> <<>>]
IsNone(x) == x = None

\* An exception raised to the caller.
Raise(kind) == [error |-> kind]
IsError(x) == "error" \in DOMAIN x

\* A Series: index labels, one cell per label, and its name.
Series(index, vals, name) == [index |-> index, vals |-> vals, name |-> name]

\* A DataFrame: row labels, column labels, cells[i][j] for row i and column
\* j, and attrs, the metadata slot: attrs['flatbread']['labels'] as a
\* function from the recorded categories to their label sets, with the key
\* "formats" for attrs['flatbread']['formats'] once a format has been set.
DataFrame(index, columns, cells, attrs) ==
    [index |-> index, columns |-> columns, cells |-> cells, attrs |-> attrs]

NRows(df) == Len(df.index)
NCols(df) == Len(df.columns)
Column(df, j) == AsTuple([i \in 1..NRows(df) |-> df.cells[i][j]])
Row(df, i) == df.cells[i]

\* The positions of s, in order, at which keep is true.
RECURSIVE KeptPositions(_, _)
KeptPositions(keep, n) ==
    IF n = 0 THEN <<>>
    ELSE IF keep[n] THEN Append(KeptPositions(keep, n - 1), n)
    ELSE KeptPositions(keep, n - 1)

\* df.loc[:, mask]
LocColumns(df, mask) ==
    LET pos == KeptPositions(mask, NCols(df))
    IN  [df EXCEPT
            !.columns = AsTuple([k \in 1..Len(pos) |-> df.columns[pos[k]]]),
            !.cells = AsTuple([i \in 1..NRows(df) |->
                AsTuple([k \in 1..Len(pos) |-> df.cells[i][pos[k]]])])]

\* df.loc[mask]
LocRows(df, mask) ==
    LET pos == KeptPositions(mask, NRows(df))
    IN  [df EXCEPT
            !.index = AsTuple([k \in 1..Len(pos) |-> df.index[pos[k]]]),
            !.cells = AsTuple([k \in 1..Len(pos) |-> df.cells[pos[k]]])]

\* The first position of label in index, 0 when it is absent.
RECURSIVE Position(_, _, _)
Position(index, label, from) ==
    IF from > Len(index) THEN 0
    ELSE IF index[from] = label THEN from
    ELSE Position(index, label, from + 1)

----------------------------------------------------------------------------
(* flatbread/chaining.py: get_data_mask.                                   *)

StartsWith(value, key) ==
    /\ Len(key) <= Len(value)
    /\ \A i \in 1..Len(key) : value[i] = key[i]

\* A list parameter, and the set of its elements.
List(elems) == [t |-> "list", items |-> elems]
KeySet(keys) == {keys.items[i] : i \in 1..Len(keys.items)}

\* should_keep without the prefix check: only the direct match.
should_keep_DirectMatchOnly(value, ignore_keys) ==
    value \notin KeySet(ignore_keys)

should_keep(value, ignore_keys) ==
    /\ value \notin KeySet(ignore_keys)
    /\ ~(/\ IsStr(value)
         /\ \E key \in KeySet(ignore_keys) :
                IsStr(key) /\ StartsWith(value.v, key.v))

\* A key of a MultiIndex: one label per level.
Tuple(levels) == [t |-> "tuple", levels |-> levels]

\* isinstance(index, pd.MultiIndex)
IsMultiIndex(index) ==
    index # <<>> /\ \A i \in 1..Len(index) : index[i].t = "tuple"

\* get_data_mask with the levels of a MultiIndex key combined by any():
\* a key is kept as soon as one of its levels matches no ignore key.
get_data_mask_AnyLevelKept(index, ignore_keys) ==
    LET keys == IF IsNone(ignore_keys) THEN List(<<>>)
                ELSE IF IsStr(ignore_keys) THEN List(<<ignore_keys>>)
                ELSE ignore_keys
    IN  IF IsMultiIndex(index)
        THEN AsTuple([i \in 1..Len(index) |->
                 \E l \in 1..Len(index[i].levels) :
                     should_keep(index[i].levels[l], keys)])
        ELSE AsTuple([i \in 1..Len(index) |-> should_keep(index[i], keys)])

\* get_data_mask without the conversion of a single str to a list: the str
\* is then walked character by character.
get_data_mask_StrNotWrapped(index, ignore_keys) ==
    LET keys == IF IsNone(ignore_keys) THEN List(<<>>)
                ELSE IF IsStr(ignore_keys)
                THEN List([c \in 1..Len(ignore_keys.v) |->
                              Str(<<ignore_keys.v[c]>>)])
                ELSE ignore_keys
    IN  AsTuple([i \in 1..Len(index) |-> should_keep(index[i], keys)])

\* One boolean per index position; ignore_keys is None, a str (the same as
\* the list holding it) or a list of labels.  A key of a MultiIndex is kept
\* when all of its levels are.
get_data_mask(index, ignore_keys) ==
    IF IsNone(ignore_keys) THEN AsTuple([i \in 1..Len(index) |-> TRUE])
    ELSE LET keys == IF IsStr(ignore_keys) THEN List(<<ignore_keys>>)
                     ELSE ignore_keys
         IN  IF IsMultiIndex(index)
             THEN AsTuple([i \in 1..Len(index) |->
                      \A l \in 1..Len(index[i].levels) :
                          should_keep(index[i].levels[l], keys)])
             ELSE AsTuple([i \in 1..Len(index) |->
                      should_keep(index[i], keys)])

----------------------------------------------------------------------------
(* flatbread/transforms/percentages.py: round_apportioned.                 *)

\* round_apportioned without its last step, the mask of the null positions.
round_apportioned_NoMask(s, ndigits) ==
    IF ndigits < 0 THEN s
    ELSE LET cumsum == RoundSeq(CumSum(FillNa0(s)), ndigits)
             prev_baseline == FillNa0(Shift1(cumsum))
         IN  SubSeqs(cumsum, prev_baseline)

\* round_apportioned without fillna(0) before the cumulative sum: cumsum
\* skips the nulls and leaves them null, and the baseline after a null is 0.
round_apportioned_NoFillna(s, ndigits) ==
    IF ndigits < 0 THEN s
    ELSE LET cumsum == RoundSeq(MaskWhere(CumSum(FillNa0(s)), IsNaSeq(s)),
                                ndigits)
             prev_baseline == FillNa0(Shift1(cumsum))
             rounded == SubSeqs(cumsum, prev_baseline)
         IN  MaskWhere(rounded, IsNaSeq(s))

\* round_apportioned along one sequence of cells (a Series, or one column
\* of a DataFrame: cumsum and shift run down the rows).
\* The lines of round_apportioned after cumsum is computed.
round_apportioned_from(s, cumsum) ==
    LET prev_baseline == FillNa0(Shift1(cumsum))
        rounded == SubSeqs(cumsum, prev_baseline)
        keep_na == MaskWhere(rounded, IsNaSeq(s))
    IN  keep_na

round_apportioned(s, ndigits) ==
    IF ndigits < 0 THEN s
    ELSE round_apportioned_from(s, RoundSeq(CumSum(FillNa0(s)), ndigits))

\* The built-in round on a Series or on one column of a DataFrame.
round(s, ndigits) == RoundSeq(s, ndigits)

\* The choice of the rounding function lost: always round_apportioned.
PipeRounding_AlwaysApportioned(df, apportioned, ndigits) ==
    LET col == AsTuple([j \in 1..NCols(df) |->
                   round_apportioned(Column(df, j), ndigits)])
    IN  [df EXCEPT !.cells = AsTuple([i \in 1..NRows(df) |->
                        AsTuple([j \in 1..NCols(df) |-> col[j][i]])])]

\* pcts.pipe(rounding, ndigits=ndigits) on a DataFrame: both roundings work
\* down each column.
PipeRounding(df, apportioned, ndigits) ==
    LET col == AsTuple([j \in 1..NCols(df) |->
                   IF apportioned
                   THEN round_apportioned(Column(df, j), ndigits)
                   ELSE round(Column(df, j), ndigits)])
    IN  [df EXCEPT !.cells = AsTuple([i \in 1..NRows(df) |->
                        AsTuple([j \in 1..NCols(df) |-> col[j][i]])])]

----------------------------------------------------------------------------
(* flatbread/transforms/percentages.py: ValuesAndTotals.                   *)

\* tolerance = 1e-10: the float nearest to 1/10^10.
Tolerance == Div(Num(1), Mul(Num(Pow10(5)), Num(Pow10(5))))

\* abs(a) < 1e-10 for a float a (False for NaN and +-inf).
WithinTolerance(a) ==
    /\ IsFinite(a)
    /\ Less(AbsNum(a), Tolerance)

\* ValuesAndTotals.from_data; totals is a sequence of cells for axis 0 and
\* 1 (one per column, one per row) and a single cell for axis 2.
from_data(data, axis, label_totals) ==
    LET n == NRows(data)
        m == NCols(data)
        allRows == [i \in 1..n |-> TRUE]
        allCols == [j \in 1..m |-> TRUE]
        r == IF IsNone(label_totals) THEN n
             ELSE Position(data.index, label_totals, 1)
        c == IF IsNone(label_totals) THEN m
             ELSE Position(data.columns, label_totals, 1)
        dropRow == LocRows(data, [allRows EXCEPT ![r] = FALSE])
        dropCol(d) == LocColumns(d, [allCols EXCEPT ![c] = FALSE])
    IN  IF axis = 0 THEN
            IF r = 0 THEN Raise(IF IsNone(label_totals) THEN "IndexError"
                                ELSE "KeyError")
            ELSE [values |-> dropRow, totals |-> Row(data, r), axis |-> 0]
        ELSE IF axis = 1 THEN
            IF c = 0 THEN Raise(IF IsNone(label_totals) THEN "IndexError"
                                ELSE "KeyError")
            ELSE [values |-> dropCol(data), totals |-> Column(data, c),
                  axis |-> 1]
        ELSE
            IF r = 0 \/ c = 0
            THEN Raise(IF IsNone(label_totals) THEN "IndexError"
                       ELSE "KeyError")
            ELSE [values |-> dropCol(dropRow), totals |-> data.cells[r][c],
                  axis |-> 2]

\* DataFrame.sum().sum(): the sum of the column sums.
GrandSum(df) == SumSkipNa([j \in 1..NCols(df) |-> SumSkipNa(Column(df, j))])

\* The check with .any() in place of .all(): one matching column or row is
\* enough.
should_use_apportioned_rounding_Any(vt) ==
    IF vt.axis = 0 THEN
        \E j \in 1..NCols(vt.values) :
            WithinTolerance(Sub(SumSkipNa(Column(vt.values, j)), vt.totals[j]))
    ELSE IF vt.axis = 1 THEN
        \E i \in 1..NRows(vt.values) :
            WithinTolerance(Sub(SumSkipNa(Row(vt.values, i)), vt.totals[i]))
    ELSE WithinTolerance(Sub(GrandSum(vt.values), vt.totals))

should_use_apportioned_rounding(vt) ==
    IF vt.axis = 0 THEN
        \A j \in 1..NCols(vt.values) :
            WithinTolerance(Sub(SumSkipNa(Column(vt.values, j)), vt.totals[j]))
    ELSE IF vt.axis = 1 THEN
        \A i \in 1..NRows(vt.values) :
            WithinTolerance(Sub(SumSkipNa(Row(vt.values, i)), vt.totals[i]))
    ELSE WithinTolerance(Sub(GrandSum(vt.values), vt.totals))

----------------------------------------------------------------------------
(* The metadata slot and flatbread/chaining.py: tag_labels.                *)

NoAttrs == [c \in {} |-> {}]

\* d.get(key, []) on attrs['flatbread']['labels'].
GetLabels(attrs, key) == IF key \in DOMAIN attrs THEN attrs[key] ELSE {}

RECURSIVE SetToSeq(_)
SetToSeq(S) ==
    IF S = {} THEN <<>>
    ELSE LET x == CHOOSE y \in S : TRUE IN <<x>> \o SetToSeq(S \ {x})

\* hasattr(result, 'attrs')
HasAttrs(result) == "attrs" \in DOMAIN result

\* The wrapper with the new labels stored in place of the union.
tag_labels_Overwrite(transform, result, labels_to_track) ==
    IF IsError(result) THEN result
    ELSE IF ~HasAttrs(result) THEN Raise("AttributeError")
    ELSE [result EXCEPT !.attrs =
             [c \in DOMAIN result.attrs \union {transform} |->
                 IF c = transform THEN labels_to_track ELSE result.attrs[c]]]

\* The wrapper of tag_labels(transform) after the wrapped function returned
\* result: labels_to_track holds the values of the transform's key-label
\* parameters that were passed and are not None. The wrapper reads
\* result.attrs (get_nested_key) before it tests hasattr(result, 'attrs'):
\* a result without the slot raises there.
tag_labels(transform, result, labels_to_track) ==
    IF IsError(result) THEN result
    ELSE IF ~HasAttrs(result) THEN Raise("AttributeError")
    ELSE LET existing_labels == GetLabels(result.attrs, transform)
             all_labels == existing_labels \union labels_to_track
         IN  [result EXCEPT !.attrs =
                 [c \in DOMAIN result.attrs \union {transform} |->
                     IF c = transform THEN all_labels ELSE result.attrs[c]]]

\* The labels a call passes in a key-label parameter.
Tracked(label) == IF IsNone(label) THEN {} ELSE {label}

----------------------------------------------------------------------------
(* flatbread/output/formats.py: FormatResolver.set_output_format.          *)

\* attrs['flatbread']['formats'], a mapping from column keys to format
\* types, empty when nothing has set a format.
GetFormats(attrs) ==
    IF "formats" \in DOMAIN attrs THEN attrs["formats"] ELSE [c \in {} |-> ""]

\* FormatResolver(data).set_output_format(column, format_type): the format
\* type is stored under the column in attrs['flatbread']['formats'] of data
\* itself, the slot and the mappings being created when they are missing;
\* the value is data after the call, which returns None.
set_output_format(data, column, format_type) ==
    LET attrs == IF HasAttrs(data) THEN data.attrs ELSE NoAttrs
        formats == GetFormats(attrs)
    IN  [index |-> data.index, columns |-> data.columns, cells |-> data.cells,
         attrs |-> [c \in DOMAIN attrs \union {"formats"} |->
                       IF c = "formats"
                       THEN [k \in DOMAIN formats \union {column} |->
                                IF k = column THEN format_type
                                ELSE formats[k]]
                       ELSE attrs[c]]]

----------------------------------------------------------------------------
(* flatbread/transforms/percentages.py: as_percentages.                    *)

\* _resolve_ignored_keys of the percentages module.
pct_resolve_ignored_keys(data, axis, ignore_keys) ==
    LET given == IF IsStr(ignore_keys) THEN <<ignore_keys>>
                 ELSE IF IsNone(ignore_keys) THEN <<>>
                 ELSE ignore_keys.items
    IN  List(given \o SetToSeq(GetLabels(data.attrs, "percentage")))

\* The division without its axis: every cell over the bottom-right cell.
DivMul_GrandTotal(data, vt, base) ==
    [data EXCEPT !.cells =
        AsTuple([i \in 1..NRows(data) |-> AsTuple([j \in 1..NCols(data) |->
            Mul(Div(data.cells[i][j], data.cells[NRows(data)][NCols(data)]),
                Num(base))])])]

\* The division without .mul(base).
DivMul_NoBase(data, vt, base) ==
    LET total(i, j) == IF vt.axis = 0 THEN vt.totals[j]
                       ELSE IF vt.axis = 1 THEN vt.totals[i]
                       ELSE vt.totals
    IN  [data EXCEPT !.cells =
            AsTuple([i \in 1..NRows(data) |-> AsTuple([j \in 1..NCols(data) |->
                Div(data.cells[i][j], total(i, j))])])]

\* The division applied to vt.values, the table without its totals.
DivMul_ValuesOnly(data, vt, base) ==
    LET total(i, j) == IF vt.axis = 0 THEN vt.totals[j]
                       ELSE IF vt.axis = 1 THEN vt.totals[i]
                       ELSE vt.totals
        values == vt.values
    IN  [values EXCEPT !.cells =
            AsTuple([i \in 1..NRows(values) |->
                AsTuple([j \in 1..NCols(values) |->
                    Mul(Div(values.cells[i][j], total(i, j)), Num(base))])])]

\* data.div(vt.totals, axis=<the other axis>).mul(base)
DivMul(data, vt, base) ==
    LET total(i, j) == IF vt.axis = 0 THEN vt.totals[j]
                       ELSE IF vt.axis = 1 THEN vt.totals[i]
                       ELSE vt.totals
    IN  [data EXCEPT !.cells =
            AsTuple([i \in 1..NRows(data) |-> AsTuple([j \in 1..NCols(data) |->
                Mul(Div(data.cells[i][j], total(i, j)), Num(base))])])]

\* The DataFrame implementation with the Series implementation's test,
\* ndigits == -1, in place of ndigits < 0.
as_percentages_frame_MinusOneOnly(df, axis, label_totals, ignore_keys, ndigits, base, apportioned_rounding) ==
    LET keys_to_ignore == pct_resolve_ignored_keys(df, axis, ignore_keys)
        cols == get_data_mask(df.columns, keys_to_ignore)
        data == LocColumns(df, cols)
        vt == from_data(data, axis, label_totals)
        pcts == DivMul(data, vt, base)
        apportioned == IF apportioned_rounding = "None"
                       THEN should_use_apportioned_rounding(vt)
                       ELSE apportioned_rounding = "True"
    IN  IF IsError(vt) THEN vt
        ELSE IF ndigits = -1 THEN pcts
        ELSE PipeRounding(pcts, apportioned, ndigits)

\* The DataFrame implementation with the heuristic asked whatever
\* apportioned_rounding is.
as_percentages_frame_HeuristicAlways(df, axis, label_totals, ignore_keys, ndigits, base, apportioned_rounding) ==
    LET keys_to_ignore == pct_resolve_ignored_keys(df, axis, ignore_keys)
        cols == get_data_mask(df.columns, keys_to_ignore)
        data == LocColumns(df, cols)
        vt == from_data(data, axis, label_totals)
        pcts == DivMul(data, vt, base)
    IN  IF IsError(vt) THEN vt
        ELSE IF ndigits < 0 THEN pcts
        ELSE PipeRounding(pcts, should_use_apportioned_rounding(vt), ndigits)

\* The DataFrame implementation, without its tag_labels wrapper.
\* apportioned_rounding is "True", "False" or "None".
as_percentages_frame(df, axis, label_totals, ignore_keys, ndigits, base, apportioned_rounding) ==
    LET keys_to_ignore == pct_resolve_ignored_keys(df, axis, ignore_keys)
        cols == get_data_mask(df.columns, keys_to_ignore)
        data == LocColumns(df, cols)
        vt == from_data(data, axis, label_totals)
        pcts == DivMul(data, vt, base)
        apportioned == IF apportioned_rounding = "None"
                       THEN should_use_apportioned_rounding(vt)
                       ELSE apportioned_rounding = "True"
    IN  IF IsError(vt) THEN vt
        ELSE IF ndigits < 0 THEN pcts
        ELSE PipeRounding(pcts, apportioned, ndigits)

\* as_percentages on a DataFrame as the caller sees it.
as_percentages(df, axis, label_pct, label_totals, ignore_keys, ndigits, base, apportioned_rounding) ==
    tag_labels("percentages",
               as_percentages_frame(df, axis, label_totals, ignore_keys,
                                    ndigits, base, apportioned_rounding),
               Tracked(label_pct))

\* as_percentages on a Series.
as_percentages_series(data, label_pct, label_totals, ndigits, base, apportioned_rounding) ==
    LET n == Len(data.index)
        p == IF IsNone(label_totals) THEN n
             ELSE Position(data.index, label_totals, 1)
        total == data.vals[p]
        pcts == AsTuple([i \in 1..n |->
                    Mul(Div(data.vals[i], total), Num(base))])
        values == AsTuple([k \in 1..(n - 1) |->
                      IF k < p THEN data.vals[k] ELSE data.vals[k + 1]])
        apportioned == IF apportioned_rounding = "None"
                       THEN WithinTolerance(Sub(SumSkipNa(values), total))
                       ELSE apportioned_rounding = "True"
        rename(vals) == Series(data.index, vals, label_pct)
    IN  IF p = 0 THEN Raise(IF IsNone(label_totals) THEN "IndexError"
                            ELSE "KeyError")
        ELSE IF ndigits = -1 THEN rename(pcts)
        ELSE IF apportioned THEN rename(round_apportioned(pcts, ndigits))
        ELSE rename(round(pcts, ndigits))

----------------------------------------------------------------------------
(* flatbread/transforms/totals.py: add_totals.                             *)

\* _resolve_ignored_keys of the totals module without the tracked labels.
totals_resolve_ignored_keys_ExplicitOnly(data, axis, ignore_keys) ==
    List(IF IsStr(ignore_keys) THEN <<ignore_keys>>
         ELSE IF IsNone(ignore_keys) THEN <<>>
         ELSE ignore_keys.items)

\* _resolve_ignored_keys of the totals module: the keys given, then the
\* labels tracked under each category in turn, a label tracked under two
\* categories being listed once for each.
totals_resolve_ignored_keys(data, axis, ignore_keys) ==
    LET given == IF IsStr(ignore_keys) THEN <<ignore_keys>>
                 ELSE IF IsNone(ignore_keys) THEN <<>>
                 ELSE ignore_keys.items
        tracked == SetToSeq(GetLabels(data.attrs, "totals"))
        more == IF axis = 1
                THEN SetToSeq(GetLabels(data.attrs, "percentages"))
                         \o SetToSeq(GetLabels(data.attrs, "differences"))
                ELSE <<>>
    IN  List(given \o tracked \o more)

\* _fill at its default '', the value of the empty positions of the key a
\* margin gets on a MultiIndex.
Fill == Str(<<>>)

\* The key of the row or column an aggregation adds to index under label:
\* the label on a flat index, and on a MultiIndex the tuple that holds the
\* label at the outermost level and _fill at every level below it.
MarginKey(index, label) ==
    IF IsMultiIndex(index)
    THEN Tuple(<<label>>
               \o AsTuple([l \in 1..(Len(index[1].levels) - 1) |-> Fill]))
    ELSE label

\* The sum aggregation add_totals delegates to: one row (axis 0) or one
\* column (axis 1) labelled label is appended, holding the sums over the
\* rows (columns) whose key is not ignored.
add_agg(data, axis, label, ignore_keys) ==
    IF axis = 0 THEN
        LET rows == LocRows(data, get_data_mask(data.index, ignore_keys))
        IN  [data EXCEPT
                !.index = Append(data.index, MarginKey(data.index, label)),
                !.cells = Append(data.cells,
                    AsTuple([j \in 1..NCols(data) |->
                                SumSkipNa(Column(rows, j))]))]
    ELSE
        LET cols == LocColumns(data, get_data_mask(data.columns, ignore_keys))
        IN  [data EXCEPT
                !.columns = Append(data.columns,
                                   MarginKey(data.columns, label)),
                !.cells = AsTuple([i \in 1..NRows(data) |->
                    Append(data.cells[i], SumSkipNa(Row(cols, i)))])]

\* add_totals for axis 0 or 1, with its tag_labels wrapper.
add_totals_axis(data, axis, label, ignore_keys) ==
    LET keys_to_ignore == totals_resolve_ignored_keys(data, axis, ignore_keys)
    IN  tag_labels("totals", add_agg(data, axis, label, keys_to_ignore),
                   Tracked(label))

\* add_totals whose axis 2 adds the totals row only.
add_totals_RowOnly(data, axis, label, ignore_keys) ==
    IF axis = 1 THEN add_totals_axis(data, 1, label, ignore_keys)
    ELSE add_totals_axis(data, 0, label, ignore_keys)

add_totals(data, axis, label, ignore_keys) ==
    IF axis < 2 THEN add_totals_axis(data, axis, label, ignore_keys)
    ELSE LET keys_to_ignore ==
                 totals_resolve_ignored_keys(data, axis, ignore_keys)
             rows == add_totals_axis(data, 0, label, keys_to_ignore)
             output == add_totals_axis(rows, 1, label, keys_to_ignore)
         IN  tag_labels("totals", output, Tracked(label))

\* data.attrs['flatbread']['totals']['ignore_keys']. Nothing writes that
\* path: attrs has no key 'flatbread' until tag_labels or set_output_format
\* has run; set_nested_key then stores under ['flatbread', 'labels',
\* transform] and set_output_format under ['flatbread', 'formats'], so
\* attrs['flatbread'] holds the keys 'labels' and 'formats' at most.
TotalsIgnoreKeys(attrs) ==
    IF DOMAIN attrs = {} THEN Raise("KeyError: 'flatbread'")
    ELSE Raise("KeyError: 'totals'")

\* drop_totals with the mask laid over the columns.
drop_totals_MaskOnColumns(data, ignore_keys) ==
    LET keys == IF IsNone(ignore_keys) THEN TotalsIgnoreKeys(data.attrs)
                ELSE ignore_keys
    IN  IF IsError(keys) THEN keys
        ELSE LocColumns(data, get_data_mask(data.columns, keys))

drop_totals(data, ignore_keys) ==
    LET keys == IF IsNone(ignore_keys) THEN TotalsIgnoreKeys(data.attrs)
                ELSE ignore_keys
    IN  IF IsError(keys) THEN keys
        ELSE LocRows(data, get_data_mask(data.index, keys))

----------------------------------------------------------------------------
(* The inputs and the calls.                                               *)

IndexLabels ==
    <<Str(<<"a">>), Str(<<"b">>), Str(<<"c">>), Str(<<"d">>), Str(<<"e">>)>>
ColumnLabels == <<Str(<<"A">>), Str(<<"B">>), Str(<<"C">>)>>
Totals == Str(<<"T", "o", "t", "a", "l", "s">>)
Pct == Str(<<"p", "c", "t">>)

\* The cells of the Series handed to round_apportioned (unrounded
\* percentages) and to as_percentages (counts), and of the DataFrames.
\* 2^55 = 36028797018963968.0: the floats next to it are 8 apart.
Big == Canon(1, <<1>>, 55)

SeriesValues ==
    {NaN, Num(0), Num(1), Num(3), Frac(1, 2), Frac(1, 3), Frac(-1, 2), Big}
CountValues == {NaN, Num(0), Num(1), Num(2)}
CellValues == {Num(0), Num(1), Num(2)}
NDigits == {-2, -1} \union 0..MaxDigits
Bases == {1, 100}
Apportioned == {"True", "False", "None"}

SeriesOver(values) ==
    UNION {{Series(SubSeq(IndexLabels, 1, k), v, None) :
               v \in [1..k -> values]} : k \in 0..MaxLen}

SeriesInputs == SeriesOver(SeriesValues) \union SeriesOver(CountValues)

\* The input tables of small counts: two columns and up to MaxRows rows, or
\* one row and three columns.
FramesOfShape(k, m) ==
    {DataFrame(SubSeq(IndexLabels, 1, k), SubSeq(ColumnLabels, 1, m), c,
               NoAttrs) : c \in [1..k -> [1..m -> CellValues]]}

\* The tall tables: one column of MaxRows + 1 counts out of 1, 2 and 5.
TallValues == {Num(1), Num(2), Num(5)}

TallFrames ==
    {DataFrame(SubSeq(IndexLabels, 1, MaxRows + 1), <<ColumnLabels[1]>>, c,
               NoAttrs) : c \in [1..(MaxRows + 1) -> [1..1 -> TallValues]]}

FrameInputs ==
    UNION {FramesOfShape(k, 2) : k \in 1..MaxRows}
        \union FramesOfShape(1, 3) \union TallFrames

\* The Series whose cells are all drawn from values.
CellsIn(s, values) == \A i \in 1..Len(s.vals) : s.vals[i] \in values

IsFrame(x) == "cells" \in DOMAIN x
IsSeries(x) == "vals" \in DOMAIN x

InitSeries ==
    /\ out \in SeriesInputs
    /\ arg = None
    /\ hist = <<>>

InitFrames ==
    /\ out \in FrameInputs
    /\ arg = None
    /\ hist = <<>>

Init == InitSeries \/ InitFrames

\* The labels of the indexes handed to get_data_mask, and the ignore_keys.
Subtotals == Str(<<"S", "u", "b", "t", "o", "t", "a", "l", "s">>)
SubtotalsRegionA ==
    Str(<<"S", "u", "b", "t", "o", "t", "a", "l", "s", " ", "R", "e", "g", "i", "o", "n", "_", "A">>)
SubtotalsX == Str(<<"S", "u", "b", "t", "o", "t", "a", "l", "s", "X">>)
LowerSubtotals == Str(<<"s", "u", "b", "t", "o", "t", "a", "l", "s">>)
ShortSub == Str(<<"S", "u", "b">>)
North == Str(<<"N", "o", "r", "t", "h">>)
Twelve == Str(<<"1", "2">>)
One == Str(<<"1">>)

FlatLabels ==
    {Subtotals, SubtotalsRegionA, SubtotalsX, LowerSubtotals, ShortSub, North,
     Twelve, IntKey(1)}
LevelLabels == {Subtotals, SubtotalsX, North}
TupleLabels == {Tuple(<<a, b>>) : a, b \in LevelLabels}

IndexesOver(labels) == UNION {[1..k -> labels] : k \in 0..MaxIndex}

IgnoreKeys ==
    {None, Subtotals, List(<<>>), List(<<Subtotals>>), List(<<Totals>>),
     List(<<IntKey(1), One>>), List(<<ShortSub, North>>)}

MaskInputs ==
    {[index |-> ix, ignore_keys |-> keys] :
        ix \in IndexesOver(FlatLabels) \union IndexesOver(TupleLabels),
        keys \in IgnoreKeys}

InitMask ==
    /\ out \in MaskInputs
    /\ arg = None
    /\ hist = <<>>

\* get_data_mask(index, ignore_keys)
GetDataMask ==
    /\ hist = <<>>
    /\ "ignore_keys" \in DOMAIN out
    /\ arg' = out
    /\ out' = get_data_mask(out.index, out.ignore_keys)
    /\ hist' = <<[op |-> "get_data_mask"]>>

NextMask == GetDataMask

\* DEFAULTS['transforms']['percentages'] holds no value for
\* apportioned_rounding: None reaches the function as None.
DefaultApportionedRounding == "None"

\* tooling.inject_defaults for one keyword: a keyword that is None or
\* missing gets the value of the defaults.
inject_defaults(value, default) == IF value = "None" THEN default ELSE value

\* round_apportioned(s, ndigits=ndigits) on an input Series.
RoundApportioned(ndigits) ==
    /\ hist = <<>>
    /\ IsSeries(out)
    /\ CellsIn(out, SeriesValues)
    /\ arg' = out
    /\ out' = [out EXCEPT !.vals = round_apportioned(out.vals, ndigits)]
    /\ hist' = <<[op |-> "round_apportioned", ndigits |-> ndigits]>>

\* as_percentages on an input Series of counts.
SeriesAsPercentages(label_totals, ndigits, base, apportioned_rounding) ==
    /\ hist = <<>>
    /\ IsSeries(out)
    /\ CellsIn(out, CountValues)
    /\ arg' = out
    /\ out' = as_percentages_series(out, Pct, label_totals, ndigits, base,
                                    inject_defaults(apportioned_rounding,
                                             DefaultApportionedRounding))
    /\ hist' = <<[op |-> "as_percentages_series",
                  label_totals |-> label_totals, ndigits |-> ndigits,
                  base |-> base,
                  apportioned_rounding |-> apportioned_rounding]>>

LabelN == Str(<<"n">>)

\* add_percentages on a Series: the percentages of the Series set beside it,
\* pd.concat({label_n: data, label_pct: pcts}, axis=1).  The result carries
\* no tracked label.
add_percentages_series(data, label_n, label_pct, label_totals, ndigits, base, apportioned_rounding) ==
    LET pcts == as_percentages_series(data, label_pct, label_totals, ndigits,
                                      base, apportioned_rounding)
    IN  IF IsError(pcts) THEN pcts
        ELSE DataFrame(data.index, <<label_n, label_pct>>,
                       AsTuple([i \in 1..Len(data.vals) |->
                                   <<data.vals[i], pcts.vals[i]>>]),
                       NoAttrs)

\* add_percentages on an input Series of counts; a call that does not pass
\* apportioned_rounding is the call with "True", the default of the
\* signature.
SeriesAddPercentages(label_totals, ndigits, base, apportioned_rounding) ==
    /\ hist = <<>>
    /\ IsSeries(out)
    /\ CellsIn(out, CountValues)
    /\ arg' = out
    /\ out' = add_percentages_series(out, LabelN, Pct, label_totals, ndigits,
                                     base,
                                     inject_defaults(apportioned_rounding,
                                              DefaultApportionedRounding))
    /\ hist' = <<[op |-> "add_percentages_series",
                  label_totals |-> label_totals, ndigits |-> ndigits,
                  base |-> base,
                  apportioned_rounding |-> apportioned_rounding]>>

\* add_totals(axis=axis, label='Totals') on an input DataFrame.
AddTotals(axis) ==
    /\ hist = <<>>
    /\ IsFrame(out)
    /\ arg' = out
    /\ out' = add_totals(out, axis, Totals, None)
    /\ hist' = <<[op |-> "add_totals", axis |-> axis, label |-> Totals]>>

\* as_percentages on the DataFrame add_totals returned.
AsPercentages(axis, label_totals, ndigits, base, apportioned_rounding) ==
    /\ Len(hist) = 1
    /\ hist[1].op = "add_totals"
    /\ arg' = out
    /\ out' = as_percentages(out, axis, Pct, label_totals, None, ndigits,
                             base, inject_defaults(apportioned_rounding,
                                             DefaultApportionedRounding))
    /\ hist' = Append(hist,
                 [op |-> "as_percentages", axis |-> axis,
                  label_totals |-> label_totals, ndigits |-> ndigits,
                  base |-> base,
                  apportioned_rounding |-> apportioned_rounding])

\* as_percentages(axis, ndigits=ndigits, base=base,
\* apportioned_rounding=apportioned_rounding) on an input DataFrame, its
\* last row and column read as the totals whatever they hold.
AsPercentagesOfInput(axis, ndigits, base, apportioned_rounding) ==
    /\ hist = <<>>
    /\ IsFrame(out)
    /\ arg' = out
    /\ out' = as_percentages(out, axis, Pct, None, None, ndigits, base,
                             inject_defaults(apportioned_rounding,
                                             DefaultApportionedRounding))
    /\ hist' = <<[op |-> "as_percentages", axis |-> axis,
                  label_totals |-> None, ndigits |-> ndigits, base |-> base,
                  apportioned_rounding |-> apportioned_rounding]>>

\* ValuesAndTotals.from_data(out, axis).should_use_apportioned_rounding on an
\* input table (its last row and column read as totals) or on the table
\* add_totals returned.
ShouldUseApportionedRounding(axis) ==
    /\ IsFrame(out)
    /\ hist = <<>> \/ (Len(hist) = 1 /\ hist[1].op = "add_totals")
    /\ arg' = out
    /\ out' = LET vt == from_data(out, axis, None)
              IN  IF IsError(vt) THEN vt
                  ELSE [answer |-> should_use_apportioned_rounding(vt)]
    /\ hist' = Append(hist, [op |-> "should_use_apportioned_rounding",
                             axis |-> axis])

\* The axes whose totals a table returned by add_totals(axis=t) holds.
TotalsHeld(t) == IF t = 2 THEN {0, 1, 2} ELSE {t}

NextSeries ==
    \/ \E nd \in NDigits : RoundApportioned(nd)
    \/ \E lt \in {None, IndexLabels[1]}, nd \in NDigits, b \in Bases,
          ap \in Apportioned : SeriesAsPercentages(lt, nd, b, ap)
    \/ \E lt \in {None, IndexLabels[1]}, nd \in NDigits, b \in Bases,
          ap \in Apportioned : SeriesAddPercentages(lt, nd, b, ap)

NextFrames ==
    \/ \E ax \in 0..2 : AddTotals(ax)
    \/ \E ax \in 0..2, nd \in NDigits, b \in Bases, ap \in Apportioned :
          /\ Len(hist) = 1
          /\ hist[1].op = "add_totals"
          /\ ax \in TotalsHeld(hist[1].axis)
          /\ AsPercentages(ax, None, nd, b, ap)
    \/ \E ax \in 0..2 : AsPercentages(ax, Totals, -1, 1, "None")
    \/ \E ax \in 0..2 : ShouldUseApportionedRounding(ax)
    \/ \E ax \in 0..2, nd \in 0..MaxDigits, b \in Bases, ap \in Apportioned :
          AsPercentagesOfInput(ax, nd, b, ap)

Next == NextSeries \/ NextFrames

Spec == Init /\ [][Next]_vars
SpecSeries == InitSeries /\ [][NextSeries]_vars
SpecFrames == InitFrames /\ [][NextFrames]_vars
SpecMask == InitMask /\ [][NextMask]_vars

----------------------------------------------------------------------------
(* flatbread/transforms/percentages.py: add_percentages, and               *)
(* flatbread/tooling.py: reindex_by_levels.                                *)

\* No value occurs twice in s.
Distinct(s) == \A i, j \in 1..Len(s) : i # j => s[i] # s[j]

\* columns.nlevels
NLevels(columns) ==
    IF IsMultiIndex(columns) THEN Len(columns[1].levels) ELSE 1

\* The levels of one column key, a flat key having one.
LevelsOf(key) == IF key.t = "tuple" THEN key.levels ELSE <<key>>

\* pd.concat({key: df}, axis=1): key becomes the outer level of every column.
Keyed(key, columns) ==
    AsTuple([j \in 1..Len(columns) |-> Tuple(<<key>> \o LevelsOf(columns[j]))])

\* rename(columns={old: new}): the mapping is applied to the labels of every
\* level.
RenameColumns(columns, old, new) ==
    LET renamed(l) == IF l = old THEN new ELSE l
    IN  AsTuple([j \in 1..Len(columns) |->
            IF columns[j].t = "tuple"
            THEN Tuple(AsTuple([k \in 1..Len(columns[j].levels) |->
                           renamed(columns[j].levels[k])]))
            ELSE renamed(columns[j])])

\* The attrs pd.concat gives its result: those of its inputs when they all
\* carry the same, none otherwise.
ConcatAttrs(a, b) == IF a = b THEN a ELSE NoAttrs

\* pd.concat([left, right], axis=1) of two tables with the same rows, the
\* column keys given.
ConcatColumns(left, right, leftColumns, rightColumns) ==
    DataFrame(left.index, leftColumns \o rightColumns,
              AsTuple([i \in 1..NRows(left) |-> left.cells[i] \o right.cells[i]]),
              ConcatAttrs(left.attrs, right.attrs))

\* Index.unique(): the values of s in order of first appearance.
RECURSIVE Unique(_)
Unique(s) ==
    IF s = <<>> THEN <<>>
    ELSE LET front == Unique(SubSeq(s, 1, Len(s) - 1))
             last == s[Len(s)]
         IN  IF \E i \in 1..Len(front) : front[i] = last THEN front
             ELSE Append(front, last)

RECURSIVE Flatten(_)
Flatten(ss) == IF ss = <<>> THEN <<>> ELSE Head(ss) \o Flatten(Tail(ss))

\* index.get_level_values(level), level counted from 1.
LevelValues(columns, level) ==
    AsTuple([j \in 1..Len(columns) |-> LevelsOf(columns[j])[level]])

\* The order DataFrame.reindex(columns=target, level=level) gives the
\* columns: within every run of columns that agree on the levels before
\* level, the columns follow the order of their level value in target and
\* keep their own order where the values are equal; a column whose value is
\* not in target is dropped. The result is a sequence of positions.
ReindexOrder(columns, target, level) ==
    LET n == Len(columns)
        prefix(j) == SubSeq(LevelsOf(columns[j]), 1, level - 1)
        starts == KeptPositions(
            [j \in 1..n |-> j = 1 \/ prefix(j) # prefix(j - 1)], n)
        stop(r) == IF r = Len(starts) THEN n ELSE starts[r + 1] - 1
        run(r) == AsTuple([k \in 1..(stop(r) - starts[r] + 1) |->
                      starts[r] + k - 1])
        pick(r, t) == LET ps == run(r)
                      IN  AsTuple([k \in 1..Len(KeptPositions(
                              [q \in 1..Len(ps) |->
                                  LevelsOf(columns[ps[q]])[level] = target[t]],
                              Len(ps))) |->
                            ps[KeptPositions(
                              [q \in 1..Len(ps) |->
                                  LevelsOf(columns[ps[q]])[level] = target[t]],
                              Len(ps))[k]]])
    IN  Flatten(AsTuple([r \in 1..Len(starts) |->
            Flatten(AsTuple([t \in 1..Len(target) |-> pick(r, t)]))]))

\* df with its columns taken at the positions pos, in that order.
TakeColumns(df, pos) ==
    [df EXCEPT
        !.columns = AsTuple([k \in 1..Len(pos) |-> df.columns[pos[k]]]),
        !.cells = AsTuple([i \in 1..NRows(df) |->
            AsTuple([k \in 1..Len(pos) |-> df.cells[i][pos[k]]])])]

\* df.reindex(columns=..., level=...) once the positions to keep are known:
\* pandas refuses to reindex an axis with duplicate labels, and checks it
\* only when at least one position is kept.
reindex_level(df_target, order) ==
    IF ~Distinct(df_target.columns) /\ Len(order) > 0 THEN Raise("ValueError")
    ELSE TakeColumns(df_target, order)

\* reindex_by_levels(df_target, df_reference): one reindex per level of the
\* reference's columns, outermost first; an error ends the loop.
RECURSIVE reindex_levels_from(_, _, _)
reindex_levels_from(df_target, df_reference, level) ==
    IF IsError(df_target) THEN df_target
    ELSE IF level > NLevels(df_reference.columns) THEN df_target
    ELSE reindex_levels_from(
             reindex_level(df_target,
                 ReindexOrder(df_target.columns,
                     Unique(LevelValues(df_reference.columns, level)), level)),
             df_reference, level + 1)

reindex_by_levels(df_target, df_reference) ==
    reindex_levels_from(df_target, df_reference, 1)

\* output.reorder_levels(new_order, axis=1) with new_order = the inner
\* levels followed by the outermost; pandas raises TypeError on an axis that
\* is not hierarchical.
reorder_levels(output) ==
    IF ~IsMultiIndex(output.columns) THEN Raise("TypeError")
    ELSE [output EXCEPT !.columns =
             AsTuple([j \in 1..Len(output.columns) |->
                 Tuple(Tail(output.columns[j].levels)
                           \o <<Head(output.columns[j].levels)>>)])]

\* The rest of the DataFrame implementation of add_percentages once cols,
\* data and pcts are computed: the concatenation and the interleaving.
add_percentages_output(df, cols, data, pcts, label_n, label_pct, interleaf) ==
    LET output == IF \A j \in 1..Len(cols) : cols[j]
                  THEN ConcatColumns(df, pcts, Keyed(label_n, df.columns),
                                     Keyed(label_pct, pcts.columns))
                  ELSE ConcatColumns(df, pcts, df.columns,
                           RenameColumns(pcts.columns, label_n, label_pct))
    IN  IF IsError(pcts) THEN pcts
        ELSE IF interleaf THEN
            LET reordered == reorder_levels(output)
            IN  IF IsError(reordered) THEN reordered
                ELSE reindex_by_levels(reordered, data)
        ELSE output

\* The DataFrame implementation of add_percentages without its tag_labels
\* wrapper. The inner as_percentages is called without label_pct and tags
\* its result with the default label.
add_percentages_frame(df, axis, label_n, label_pct, label_totals, ignore_keys, ndigits, base, apportioned_rounding, interleaf) ==
    LET keys_to_ignore == pct_resolve_ignored_keys(df, axis, ignore_keys)
        cols == get_data_mask(df.columns, keys_to_ignore)
        data == LocColumns(df, cols)
    IN  add_percentages_output(df, cols, data,
            as_percentages(data, axis, Pct, label_totals, ignore_keys,
                           ndigits, base, apportioned_rounding),
            label_n, label_pct, interleaf)

\* add_percentages on a DataFrame as the caller sees it.
add_percentages(df, axis, label_n, label_pct, label_totals, ignore_keys, ndigits, base, apportioned_rounding, interleaf) ==
    tag_labels("percentages",
               add_percentages_frame(df, axis, label_n, label_pct,
                                     label_totals, ignore_keys, ndigits, base,
                                     apportioned_rounding, interleaf),
               Tracked(label_pct))

----------------------------------------------------------------------------
(* Chains of transforms on one table.                                      *)

\* A data label that starts with the default totals label, and a second
\* totals label.
TotalsNet == Str(<<"T", "o", "t", "a", "l", "s", " ", "n", "e", "t">>)
Grand == Str(<<"G", "r", "a", "n", "d">>)

ChainRowLabels == {IndexLabels[1], IndexLabels[2], TotalsNet}
ChainColumns ==
    {<<ColumnLabels[1], ColumnLabels[2]>>, <<ColumnLabels[1], Pct>>}
ChainCells == {Num(1), Num(2)}

\* The input tables of a chain: up to MaxRows rows with distinct labels, two
\* columns, no metadata yet.
ChainInputs ==
    UNION {{DataFrame(ix, cols, c, NoAttrs) :
               ix \in {x \in [1..k -> ChainRowLabels] : Distinct(x)},
               cols \in ChainColumns,
               c \in [1..k -> [1..2 -> ChainCells]]} : k \in 1..MaxRows}

InitChain ==
    /\ out \in ChainInputs
    /\ arg = None
    /\ hist = <<>>

Labels(index) == {index[i] : i \in 1..Len(index)}

\* add_totals(axis=axis, label=label), ignore_keys left out, on an input
\* table or on the table an earlier add_totals returned; label is new to the
\* axes it is added to.
ChainAddTotals(axis, label) ==
    /\ IsFrame(out)
    /\ hist = <<>> \/ (Len(hist) = 1 /\ hist[1].op = "add_totals")
    /\ axis \in {0, 2} => label \notin Labels(out.index)
    /\ axis \in {1, 2} => label \notin Labels(out.columns)
    /\ arg' = out
    /\ out' = add_totals(out, axis, label, None)
    /\ hist' = Append(hist, [op |-> "add_totals", axis |-> axis,
                             label |-> label, data |-> out])

\* drop_totals(ignore_keys=ignore_keys) on an input table or on the table
\* add_totals returned; .pita.drop_totals() is the call with ignore_keys
\* None.
DropTotals(ignore_keys) ==
    /\ IsFrame(out)
    /\ hist = <<>> \/ (Len(hist) = 1 /\ hist[1].op = "add_totals")
    /\ arg' = out
    /\ out' = drop_totals(out, ignore_keys)
    /\ hist' = Append(hist, [op |-> "drop_totals",
                             ignore_keys |-> ignore_keys])

\* as_percentages(axis=axis, ignore_keys=ignore_keys) with the defaults
\* label_pct='pct', ndigits=-1, base=1, on an input table or on the table
\* add_totals or as_percentages returned.
ChainAsPercentages(axis, ignore_keys) ==
    /\ IsFrame(out)
    /\ \/ hist = <<>>
       \/ Len(hist) = 1 /\ hist[1].op \in {"add_totals", "as_percentages"}
    /\ arg' = out
    /\ out' = as_percentages(out, axis, Pct, None, ignore_keys, -1, 1, "None")
    /\ hist' = Append(hist, [op |-> "as_percentages", axis |-> axis,
                             ignore_keys |-> ignore_keys])

\* FormatResolver(out).set_output_format(column, format_type) on an input
\* table, before the first transform: the table is changed in place, so the
\* calls that follow receive it with the format recorded.
SetOutputFormat(column, format_type) ==
    /\ IsFrame(out)
    /\ hist = <<>>
    /\ out' = set_output_format(out, column, format_type)
    /\ UNCHANGED <<arg, hist>>

\* A table of a type without the attrs attribute.
WithoutAttrs(df) ==
    [index |-> df.index, columns |-> df.columns, cells |-> df.cells]

\* A transform decorated with tag_labels('totals') that is called with
\* label=label and returns its table as a type without attrs.
TaggedWithoutAttrs(label) ==
    /\ IsFrame(out)
    /\ hist = <<>>
    /\ arg' = WithoutAttrs(out)
    /\ out' = tag_labels("totals", WithoutAttrs(out), Tracked(label))
    /\ hist' = <<[op |-> "tagged_without_attrs", label |-> label]>>

NextChain ==
    \/ \E ax \in 0..2, l \in {Totals, Grand} : ChainAddTotals(ax, l)
    \/ /\ Len(hist) = 1
       /\ hist[1].op = "add_totals"
       /\ \E k \in {None, hist[1].label} : DropTotals(k)
    \/ /\ hist = <<>>
       /\ \E k \in {None, Totals} : DropTotals(k)
    \/ /\ IsFrame(out)
       /\ SetOutputFormat(out.columns[1], "percentage")
    \/ \E ax \in 0..2, k \in {None, Pct} : ChainAsPercentages(ax, k)
    \/ \E l \in {None, Totals} : TaggedWithoutAttrs(l)

SpecChain == InitChain /\ [][NextChain]_vars

----------------------------------------------------------------------------
(* Successive add_percentages calls on one table.                          *)

\* The input tables: up to MaxRows rows and the columns B, A in that order
\* or A, B; the last row and column are read as the totals.
PctInputs ==
    UNION {{DataFrame(SubSeq(IndexLabels, 1, k), cols, c, NoAttrs) :
               cols \in {<<ColumnLabels[2], ColumnLabels[1]>>,
                         <<ColumnLabels[1], ColumnLabels[2]>>},
               c \in [1..k -> [1..2 -> ChainCells]]} : k \in 1..MaxRows}

InitPct ==
    /\ out \in PctInputs
    /\ arg = None
    /\ hist = <<>>

\* add_percentages(axis=axis, ignore_keys=ignore_keys, interleaf=interleaf)
\* with label_n='n', label_pct='pct', ndigits=-1, base=1, on an input table
\* or on the table an earlier add_percentages returned, its column keys
\* being unique.
AddPercentages(axis, ignore_keys, interleaf) ==
    /\ IsFrame(out)
    /\ Distinct(out.columns)
    /\ hist = <<>> \/ Len(hist) = 1
    /\ arg' = out
    /\ out' = add_percentages(out, axis, LabelN, Pct, None, ignore_keys, -1,
                              1, "True", interleaf)
    /\ hist' = Append(hist, [op |-> "add_percentages", axis |-> axis,
                             ignore_keys |-> ignore_keys,
                             interleaf |-> interleaf, data |-> out])

NextPct ==
    \E ax \in 0..2, k \in {None, Pct, ColumnLabels[2]}, il \in BOOLEAN :
        AddPercentages(ax, k, il)

SpecPct == InitPct /\ [][NextPct]_vars

----------------------------------------------------------------------------
(* The axis selectors: flatbread/axes.py resolve_axis and                  *)
(* flatbread/tooling.py handle_axis_rotation.                              *)

AxisIndex == Str(<<"i", "n", "d", "e", "x">>)
AxisColumns == Str(<<"c", "o", "l", "u", "m", "n", "s">>)
AxisBoth == Str(<<"b", "o", "t", "h">>)
AxisRows == Str(<<"r", "o", "w", "s">>)

\* The selectors a caller passes: the six valid ones, the int 3 and 'rows'.
AxisSelectors ==
    {IntKey(0), IntKey(1), IntKey(2), IntKey(3),
     AxisIndex, AxisColumns, AxisBoth, AxisRows}

\* axes.resolve_axis: 0 or 'index' is 0, 1 or 'columns' is 1, 2 or 'both'
\* is 2; every other selector is an InvalidAxis error.
IsValidAxis(axis) ==
    axis \in {IntKey(0), IntKey(1), IntKey(2), AxisIndex, AxisColumns, AxisBoth}

resolve_axis(axis) ==
    IF axis \in {IntKey(0), AxisIndex} THEN 0
    ELSE IF axis \in {IntKey(1), AxisColumns} THEN 1
    ELSE 2

\* df.T
Transpose(df) ==
    IF IsError(df) THEN df
    ELSE [df EXCEPT
             !.index = df.columns,
             !.columns = df.index,
             !.cells = AsTuple([j \in 1..NCols(df) |-> Column(df, j)])]

\* handle_axis_rotation(func)(df, axis=axis, ...) for func = drop_totals
\* with explicit ignore_keys: the table is transposed around the call for
\* axis 1 or 'columns'; every other selector falls through to the call on
\* the table as it is.
handle_axis_rotation(df, axis, ignore_keys) ==
    IF axis \in {IntKey(1), AxisColumns}
    THEN Transpose(drop_totals(Transpose(df), ignore_keys))
    ELSE drop_totals(df, ignore_keys)

\* add_totals(axis=axis, label='Totals') on an input table.
AddTotalsAlong(axis) ==
    /\ hist = <<>>
    /\ arg' = out
    /\ out' = IF IsValidAxis(axis)
              THEN add_totals(out, resolve_axis(axis), Totals, None)
              ELSE Raise("InvalidAxis")
    /\ hist' = <<[op |-> "add_totals", axis |-> axis]>>

\* as_percentages(axis=axis) on an input table.
AsPercentagesAlong(axis) ==
    /\ hist = <<>>
    /\ arg' = out
    /\ out' = IF IsValidAxis(axis)
              THEN as_percentages(out, resolve_axis(axis), Pct, None, None,
                                  -1, 1, "None")
              ELSE Raise("InvalidAxis")
    /\ hist' = <<[op |-> "as_percentages", axis |-> axis]>>

\* handle_axis_rotation(drop_totals)(axis=axis, ignore_keys=ignore_keys) on
\* an input table.
RotatedDropTotals(axis, ignore_keys) ==
    /\ hist = <<>>
    /\ arg' = out
    /\ out' = handle_axis_rotation(out, axis, ignore_keys)
    /\ hist' = <<[op |-> "handle_axis_rotation", axis |-> axis,
                  ignore_keys |-> ignore_keys]>>

NextAxis ==
    \/ \E ax \in AxisSelectors : AddTotalsAlong(ax)
    \/ \E ax \in AxisSelectors : AsPercentagesAlong(ax)
    \/ \E ax \in AxisSelectors, k \in {IndexLabels[1], ColumnLabels[1]} :
          RotatedDropTotals(ax, k)

SpecAxis == InitPct /\ [][NextAxis]_vars

----------------------------------------------------------------------------
(* The tables as objects: which table a transform returns.                 *)
(* In the behaviours of SpecObjects arg is the sequence of the table       *)
(* objects alive, an object being known by its position, out is the object *)
(* the last call returned and hist the calls made: the object passed, its  *)
(* value before the call and the object returned (0 if the call raised).   *)
(* A table derived by pandas (loc, div, concat, copy) is a new object with *)
(* a deep copy of the attrs of its source.                                 *)

MaxCalls == 2

\* A new table object holding value, or the exception value is.
New(heap, value) ==
    IF IsError(value) THEN value
    ELSE [heap |-> Append(heap, value), result |-> Len(heap) + 1]

\* flatbread/transforms/totals.py: add_subtotals.  The sum aggregation per
\* group it delegates to, agg.add_subagg of flatbread/transforms/aggregation,
\* is modelled as the design describes it: the rows are grouped by the key
\* of the level, every group gets, immediately below its members, one
\* subtotal row of the sums over its data entries, the members whose key is
\* not ignored, and a group of exactly one data entry gets none under
\* skip_single_rows.

\* A level given by its position, as the int it is.
LevelNumber(level) == CHOOSE n \in 0..9 : IntKey(n) = level

\* The group of a row at level: the values of its key at the levels 0 to
\* level.
GroupOf(key, level) == SubSeq(key.levels, 1, level + 1)

\* The rows of data whose group at level is g.
GroupRows(data, level, g) ==
    LocRows(data, AsTuple([i \in 1..NRows(data) |->
                              GroupOf(data.index[i], level) = g]))

\* The data entries of a group: its rows whose key is not ignored.
DataEntries(group, ignore_keys) ==
    LocRows(group, get_data_mask(group.index, ignore_keys))

\* The label of the subtotal of the group g: label, or f"{label} {group_key}"
\* with include_level_name.
SubaggLabel(label, include_level_name, g) ==
    IF include_level_name THEN Str(label.v \o <<" ">> \o g[Len(g)].v)
    ELSE label

\* The key of the subtotal of the group g: the values of the group, the
\* label, and _fill at the levels below.
SubaggKey(g, label, nlevels) ==
    Tuple(g \o <<label>>
            \o AsTuple([l \in 1..(nlevels - Len(g) - 1) |-> Fill]))

\* The subtotal entry of a group with the data entries given, as a sequence
\* of no or one row: a group of exactly one data entry gets none under
\* skip_single_rows, every other group the sums of its data entries.
subagg_entry(entries, key, skip_single_rows, ncols) ==
    IF skip_single_rows /\ NRows(entries) = 1 THEN <<>>
    ELSE <<[key |-> key,
            cells |-> AsTuple([j \in 1..ncols |->
                                  SumSkipNa(Column(entries, j))]),
            agg |-> TRUE]>>

\* What is inserted after row i: the subtotal entry of its group g when it
\* is the last member of the group.
subagg_after(data, level, label, include_level_name, ignore_keys, skip_single_rows, i, g) ==
    IF \E k \in (i + 1)..NRows(data) : GroupOf(data.index[k], level) = g
    THEN <<>>
    ELSE subagg_entry(DataEntries(GroupRows(data, level, g), ignore_keys),
                      SubaggKey(g, SubaggLabel(label, include_level_name, g),
                                NLevels(data.index)),
                      skip_single_rows, NCols(data))

\* The rows of the result from row i of data on: every row of data in its
\* place, and the subtotal entry of a group immediately after its members.
RECURSIVE subagg_rows(_, _, _, _, _, _, _)
subagg_rows(data, level, label, include_level_name, ignore_keys, skip_single_rows, i) ==
    IF i > NRows(data) THEN <<>>
    ELSE <<[key |-> data.index[i], cells |-> data.cells[i], agg |-> FALSE]>>
         \o subagg_after(data, level, label, include_level_name, ignore_keys,
                         skip_single_rows, i, GroupOf(data.index[i], level))
         \o subagg_rows(data, level, label, include_level_name, ignore_keys,
                        skip_single_rows, i + 1)

\* The table of the rows given; a subtotal key that is a key of data
\* already is a conflict.
subagg_frame(data, rows) ==
    IF \E k \in 1..Len(rows) :
           rows[k].agg /\ rows[k].key \in {data.index[i] : i \in 1..NRows(data)}
    THEN Raise("ValueError")
    ELSE [data EXCEPT
             !.index = AsTuple([k \in 1..Len(rows) |-> rows[k].key]),
             !.cells = AsTuple([k \in 1..Len(rows) |-> rows[k].cells])]

\* agg.add_subagg(data, 'sum', axis=0, ...): the rows need a MultiIndex and
\* level a level below it to hold the label.
add_subagg_rows(data, level, label, include_level_name, ignore_keys, skip_single_rows) ==
    IF ~IsMultiIndex(data.index) THEN Raise("AssertionError")
    ELSE IF level >= NLevels(data.index) - 1 THEN Raise("AssertionError")
    ELSE subagg_frame(data,
             subagg_rows(data, level, label, include_level_name, ignore_keys,
                         skip_single_rows, 1))

\* agg.add_subagg(data, 'sum', axis=axis, ...) for axis 0 or 1, the sum
\* aggregation add_subtotals delegates to; axis 1 is axis 0 on the
\* transposed table.
add_subagg(data, axis, level, label, include_level_name, ignore_keys, skip_single_rows) ==
    IF axis = 0
    THEN add_subagg_rows(data, level, label, include_level_name, ignore_keys,
                         skip_single_rows)
    ELSE Transpose(add_subagg_rows(Transpose(data), level, label,
                                   include_level_name, ignore_keys,
                                   skip_single_rows))

\* _add_subtotals for axis 0 or 1 with its tag_labels wrapper; data is the
\* table the call is piped, or the exception an earlier call of the pipe
\* raised.
add_subtotals_axis(data, axis, level, label, include_level_name, ignore_keys, skip_single_rows) ==
    IF IsError(data) THEN data
    ELSE tag_labels("totals",
             add_subagg(data, axis, LevelNumber(level), label,
                        include_level_name,
                        totals_resolve_ignored_keys(data, axis, ignore_keys),
                        skip_single_rows),
             Tracked(label))

\* _add_subtotals for axis 2: the call for axis 0 piped into the call for
\* axis 1, both with keys_to_ignore as their ignore_keys.
add_subtotals_both(data, level, label, include_level_name, keys_to_ignore, skip_single_rows) ==
    tag_labels("totals",
        add_subtotals_axis(
            add_subtotals_axis(data, 0, level, label, include_level_name,
                               keys_to_ignore, skip_single_rows),
            1, level, label, include_level_name, keys_to_ignore,
            skip_single_rows),
        Tracked(label))

\* _add_subtotals(data, axis=axis, level=level, label=label, ...) for one
\* level; inject_defaults has put the default 'Subtotals' in place of a
\* label of None before tag_labels reads it.
add_subtotals_level(data, axis, level, label, include_level_name, ignore_keys, skip_single_rows) ==
    IF axis < 2
    THEN add_subtotals_axis(data, axis, level,
                            IF IsNone(label) THEN Subtotals ELSE label,
                            include_level_name, ignore_keys, skip_single_rows)
    ELSE add_subtotals_both(data, level,
                            IF IsNone(label) THEN Subtotals ELSE label,
                            include_level_name,
                            totals_resolve_ignored_keys(data, axis, ignore_keys),
                            skip_single_rows)

\* The loop of add_subtotals over a list of levels, result being the object
\* reached so far.
RECURSIVE add_subtotals_levels(_, _, _, _, _, _, _, _)
add_subtotals_levels(heap, result, axis, level, label, include_level_name, ignore_keys, skip_single_rows) ==
    IF level = <<>> THEN [heap |-> heap, result |-> result]
    ELSE LET r == New(heap,
                      add_subtotals_level(heap[result], axis, Head(level),
                                          label, include_level_name,
                                          ignore_keys, skip_single_rows))
         IN  IF IsError(r) THEN r
             ELSE add_subtotals_levels(r.heap, r.result, axis, Tail(level),
                                       label, include_level_name, ignore_keys,
                                       skip_single_rows)

\* add_subtotals(data, axis=axis, level=level, label=label, ...) on the
\* object data.
add_subtotals(heap, data, axis, level, label, include_level_name, ignore_keys, skip_single_rows) ==
    IF level.t \in {"int", "str"}
    THEN New(heap,
             add_subtotals_level(heap[data], axis, level, label,
                                 include_level_name, ignore_keys,
                                 skip_single_rows))
    ELSE add_subtotals_levels(heap, data, axis, level.items, label,
                              include_level_name, ignore_keys,
                              skip_single_rows)

InitObjects ==
    /\ arg \in {<<df>> : df \in PctInputs}
    /\ out = 1
    /\ hist = <<>>

\* The identities a call can be handed.
Objects == 1..MaxCalls

\* The call on the object data has returned r or raised r.
Returns(call, data, r) ==
    /\ Len(hist) < MaxCalls
    /\ arg' = IF IsError(r) THEN arg ELSE r.heap
    /\ out' = IF IsError(r) THEN out ELSE r.result
    /\ hist' = Append(hist, [call |-> call, data |-> data,
                             before |-> arg[data],
                             result |-> IF IsError(r) THEN 0 ELSE r.result])

ObjAddTotals(data, axis) ==
    /\ data \in DOMAIN arg
    /\ axis \in {0, 2} => Totals \notin Labels(arg[data].index)
    /\ axis \in {1, 2} => Totals \notin Labels(arg[data].columns)
    /\ Returns([op |-> "add_totals", axis |-> axis], data,
               New(arg, add_totals(arg[data], axis, Totals, None)))

ObjAsPercentages(data, axis) ==
    /\ data \in DOMAIN arg
    /\ Returns([op |-> "as_percentages", axis |-> axis], data,
               New(arg, as_percentages(arg[data], axis, Pct, None, None,
                                       -1, 1, "None")))

ObjAddPercentages(data, axis) ==
    /\ data \in DOMAIN arg
    /\ Distinct(arg[data].columns)
    /\ Returns([op |-> "add_percentages", axis |-> axis], data,
               New(arg, add_percentages(arg[data], axis, LabelN, Pct, None,
                                        None, -1, 1, "True", FALSE)))

ObjDropTotals(data, ignore_keys) ==
    /\ data \in DOMAIN arg
    /\ Returns([op |-> "drop_totals", ignore_keys |-> ignore_keys], data,
               New(arg, drop_totals(arg[data], ignore_keys)))

ObjAddSubtotals(data, level) ==
    /\ data \in DOMAIN arg
    /\ Returns([op |-> "add_subtotals", level |-> level], data,
               add_subtotals(arg, data, 0, level, None, FALSE, None, TRUE))

\* add_subtotals(axis=0) with level=0, level=[] and level=[0], the other
\* parameters at their defaults.
NextObjects ==
    \/ \E data \in Objects, ax \in 0..2 : ObjAddTotals(data, ax)
    \/ \E data \in Objects, ax \in 0..2 : ObjAsPercentages(data, ax)
    \/ \E data \in Objects, ax \in 0..2 : ObjAddPercentages(data, ax)
    \/ \E data \in Objects : ObjDropTotals(data, Totals)
    \/ \E data \in Objects : ObjAddSubtotals(data, IntKey(0))
    \/ \E data \in Objects : ObjAddSubtotals(data, List(<<>>))
    \/ \E data \in Objects : ObjAddSubtotals(data, List(<<IntKey(0)>>))

SpecObjects == InitObjects /\ [][NextObjects]_vars

----------------------------------------------------------------------------
(* Chains of add_totals and add_subtotals on a table with hierarchical     *)
(* rows.                                                                   *)

MaxChain == 3       \* most calls of a chain of add_totals and add_subtotals

\* The row keys of the inputs: two rows of the group 'a' and one row of a
\* group whose key starts with the default totals label.
TotalsRowKeys ==
    <<Tuple(<<IndexLabels[1], IndexLabels[3]>>),
      Tuple(<<IndexLabels[1], IndexLabels[4]>>),
      Tuple(<<TotalsNet, IndexLabels[3]>>)>>

\* The row indexes of k rows: k of the row keys, in their order.
TotalsIndexes(k) ==
    {AsTuple([i \in 1..k |-> TotalsRowKeys[pos[i]]]) :
        pos \in {q \in [1..k -> 1..Len(TotalsRowKeys)] :
                    \A i \in 1..(k - 1) : q[i] < q[i + 1]}}

\* The columns of the inputs: flat, or the two columns of one group.
TotalsColumns ==
    {<<ColumnLabels[1], ColumnLabels[2]>>,
     <<Tuple(<<ColumnLabels[1], ColumnLabels[2]>>),
       Tuple(<<ColumnLabels[1], ColumnLabels[3]>>)>>}

\* The input tables: up to MaxRows rows under a MultiIndex, two columns, no
\* metadata yet.
TotalsInputs ==
    UNION {{DataFrame(ix, cols, c, NoAttrs) :
               ix \in TotalsIndexes(k), cols \in TotalsColumns,
               c \in [1..k -> [1..2 -> ChainCells]]} : k \in 1..MaxRows}

InitTotals ==
    /\ out \in TotalsInputs
    /\ arg = None
    /\ hist = <<>>

\* add_totals(axis=axis, label=label), ignore_keys left out, on an input
\* table or on the table an earlier add_totals returned; the key of the new
\* row or column is new to its axis.
TotalsAddTotals(axis, label) ==
    /\ IsFrame(out)
    /\ Len(hist) < MaxChain - 1
    /\ \A e \in 1..Len(hist) : hist[e].op = "add_totals"
    /\ axis \in {0, 2} =>
           MarginKey(out.index, label) \notin Labels(out.index)
    /\ axis \in {1, 2} =>
           MarginKey(out.columns, label) \notin Labels(out.columns)
    /\ arg' = out
    /\ out' = add_totals(out, axis, label, None)
    /\ hist' = Append(hist, [op |-> "add_totals", axis |-> axis,
                             label |-> label])

\* The table a call returned, or the exception it raised.
Returned(r) == IF IsError(r) THEN r ELSE r.heap[r.result]

\* add_subtotals(axis=axis, level=level,
\* include_level_name=include_level_name,
\* skip_single_rows=skip_single_rows), label and ignore_keys left out, on an
\* input table or on the table add_totals returned.
TotalsAddSubtotals(axis, level, include_level_name, skip_single_rows) ==
    /\ IsFrame(out)
    /\ Len(hist) < MaxChain
    /\ \A e \in 1..Len(hist) : hist[e].op = "add_totals"
    /\ arg' = out
    /\ out' = Returned(add_subtotals(<<out>>, 1, axis, level, None,
                                     include_level_name, None,
                                     skip_single_rows))
    /\ hist' = Append(hist, [op |-> "add_subtotals", axis |-> axis,
                             level |-> level,
                             include_level_name |-> include_level_name,
                             skip_single_rows |-> skip_single_rows])

\* add_subtotals at level 0 on each axis, with the subtotal of a single row
\* skipped or not; with the group key in the label; at level 1, which leaves
\* no level for the label; and with the list [0, 0] of levels, whose second
\* pass meets the subtotals of the first.
NextTotals ==
    \/ \E ax \in 0..2, l \in {Totals, Grand} : TotalsAddTotals(ax, l)
    \/ \E ax \in 0..2, skip \in BOOLEAN :
           TotalsAddSubtotals(ax, IntKey(0), FALSE, skip)
    \/ TotalsAddSubtotals(0, IntKey(0), TRUE, FALSE)
    \/ TotalsAddSubtotals(0, IntKey(1), FALSE, TRUE)
    \/ TotalsAddSubtotals(0, List(<<IntKey(0), IntKey(0)>>), FALSE, TRUE)

SpecTotals == InitTotals /\ [][NextTotals]_vars

----------------------------------------------------------------------------
(* as_percentages with explicit ignore_keys on input tables.               *)

\* as_percentages(axis, ignore_keys=ignore_keys, ndigits=ndigits, base=base)
\* on an input DataFrame; the totals are the last row and column of the
\* columns that are not ignored.
AsPercentagesIgnoring(axis, ignore_keys, ndigits, base) ==
    /\ hist = <<>>
    /\ IsFrame(out)
    /\ arg' = out
    /\ out' = as_percentages(out, axis, Pct, None, ignore_keys, ndigits, base,
                             "None")
    /\ hist' = <<[op |-> "as_percentages", axis |-> axis,
                  ignore_keys |-> ignore_keys, ndigits |-> ndigits,
                  base |-> base]>>

NextIgnoring ==
    \E ax \in 0..2, k \in {None, ColumnLabels[2]}, nd \in {-1, 0},
       b \in Bases : AsPercentagesIgnoring(ax, k, nd, b)

SpecIgnoring == InitFrames /\ [][NextIgnoring]_vars

----------------------------------------------------------------------------
(* What the claims speak of.                                               *)

LastCall == hist[Len(hist)]
Called(op) == hist # <<>> /\ LastCall.op = op

\* Some element of a sequence of cells is null.
HasNull(v) == \E i \in 1..Len(v) : IsNaN(v[i])

\* cell / total * base for cell (i, j) of df, the total taken by position:
\* from the last row (axis 0), the last column (axis 1), the bottom-right
\* cell (axis 2).
Ratio(df, axis, base, i, j) ==
    LET n == NRows(df)
        m == NCols(df)
        total == IF axis = 0 THEN df.cells[n][j]
                 ELSE IF axis = 1 THEN df.cells[i][m]
                 ELSE df.cells[n][m]
    IN  Mul(Div(df.cells[i][j], total), Num(base))

\* as_percentages was the last call, on a DataFrame, and returned a table.
PercentagesReturned == Called("as_percentages") /\ ~IsError(out)

----------------------------------------------------------------------------
(* C1: for ndigits >= 0 the non-null elements of round_apportioned(S,      *)
(* ndigits) sum to round(sum of S with nulls counted as 0, ndigits).       *)
C1_SumIsRoundedSum ==
    (Called("round_apportioned") /\ LastCall.ndigits >= 0) =>
        SumSkipNa(out.vals)
            = RoundNum(SumSkipNa(FillNa0(arg.vals)), LastCall.ndigits)

(* C2: for ndigits >= 0 round_apportioned keeps length, labels and nulls   *)
(* in place, and a null is accumulated as 0: every non-null element equals *)
(* the one computed with the nulls replaced by 0.                          *)
C2_NullsKeptInPlace ==
    (Called("round_apportioned") /\ LastCall.ndigits >= 0) =>
        /\ Len(out.vals) = Len(arg.vals)
        /\ out.index = arg.index
        /\ \A i \in 1..Len(arg.vals) :
              /\ IsNaN(out.vals[i]) <=> IsNaN(arg.vals[i])
              /\ ~IsNaN(arg.vals[i]) =>
                    out.vals[i] = round_apportioned(FillNa0(arg.vals),
                                                    LastCall.ndigits)[i]

\* A null before a non-null element that rounding changed.
C2_Witness ==
    /\ Called("round_apportioned")
    /\ LastCall.ndigits >= 0
    /\ \E i, k \in 1..Len(arg.vals) :
          /\ i < k
          /\ IsNaN(arg.vals[i]) /\ IsNaN(out.vals[i])
          /\ ~IsNaN(arg.vals[k]) /\ out.vals[k] # arg.vals[k]

(* C3: a negative ndigits means no rounding on the sequence and DataFrame  *)
(* paths: round_apportioned returns its input, and DataFrame               *)
(* as_percentages returns cell / total * base in every cell, whatever      *)
(* apportioned_rounding is.                                                *)
C3_NegativeNdigitsNoRounding ==
    /\ (Called("round_apportioned") /\ LastCall.ndigits < 0) => out = arg
    /\ (PercentagesReturned /\ LastCall.ndigits < 0) =>
          /\ out.index = arg.index
          /\ out.columns = arg.columns
          /\ \A i \in 1..NRows(arg), j \in 1..NCols(arg) :
                out.cells[i][j]
                    = Ratio(arg, LastCall.axis, LastCall.base, i, j)

\* ndigits = -2 with apportioned_rounding False on ratios that rounding to
\* hundreds would change.
C3_Witness ==
    /\ PercentagesReturned
    /\ LastCall.ndigits = -2
    /\ LastCall.apportioned_rounding = "False"
    /\ \E i \in 1..NRows(out), j \in 1..NCols(out) :
          /\ IsFinite(out.cells[i][j])
          /\ RoundNum(out.cells[i][j], -2) # out.cells[i][j]

(* C4: Series as_percentages returns the unrounded value / total * base    *)
(* for every ndigits < 0 and every apportioned_rounding.                   *)
C4_SeriesNegativeNdigitsNoRounding ==
    (Called("as_percentages_series") /\ ~IsError(out)
         /\ LastCall.ndigits < 0) =>
        LET p == IF IsNone(LastCall.label_totals) THEN Len(arg.vals)
                 ELSE Position(arg.index, LastCall.label_totals, 1)
        IN  \A i \in 1..Len(arg.vals) :
                out.vals[i] = Mul(Div(arg.vals[i], arg.vals[p]),
                                  Num(LastCall.base))

(* C5: DataFrame as_percentages with ndigits = -1 and the totals in the    *)
(* last row/column: every data cell is cell / column total * base (axis    *)
(* 0), cell / row total * base (axis 1), cell / bottom-right * base (axis  *)
(* 2).                                                                     *)
C5_CellOverTotal ==
    (PercentagesReturned /\ LastCall.ndigits = -1
         /\ IsNone(LastCall.label_totals)) =>
        LET n == NRows(arg)
            m == NCols(arg)
            base == Num(LastCall.base)
            cell(i, j) == arg.cells[i][j]
        IN  /\ LastCall.axis = 0 =>
                \A i \in 1..(n - 1), j \in 1..m :
                    out.cells[i][j] = Mul(Div(cell(i, j), cell(n, j)), base)
            /\ LastCall.axis = 1 =>
                \A i \in 1..n, j \in 1..(m - 1) :
                    out.cells[i][j] = Mul(Div(cell(i, j), cell(i, m)), base)
            /\ LastCall.axis = 2 =>
                \A i \in 1..(n - 1), j \in 1..(m - 1) :
                    out.cells[i][j] = Mul(Div(cell(i, j), cell(n, m)), base)

\* Two data cells of one column with different ratios, after axis 0.
C5_Witness ==
    /\ PercentagesReturned
    /\ LastCall.ndigits = -1
    /\ IsNone(LastCall.label_totals)
    /\ LastCall.axis = 0
    /\ LastCall.base = 100
    /\ NRows(out) = 3
    /\ out.cells[1][1] = Mul(Frac(1, 3), Num(100))
    /\ out.cells[2][1] = Mul(Frac(2, 3), Num(100))
    /\ out.cells[1][2] = Num(50)

\* The data cells of column j (all rows but the last) and of row i (all
\* columns but the last).
DataOfColumn(df, j) == SubSeq(Column(df, j), 1, NRows(df) - 1)
DataOfRow(df, i) == SubSeq(Row(df, i), 1, NCols(df) - 1)

\* The sum of the data block: all cells outside the last row and column.
DataBlockSum(df) ==
    SumSkipNa([j \in 1..(NCols(df) - 1) |-> SumSkipNa(DataOfColumn(df, j))])

\* as_percentages returned, for totals taken by position, on the table
\* add_totals made.
PositionalPercentages ==
    /\ PercentagesReturned
    /\ IsNone(LastCall.label_totals)
    /\ hist[1].op = "add_totals"

(* C6 as claimed: after add_totals, as_percentages(axis, ndigits=-1,       *)
(* base=b) gives data cells that sum to b in each column (axis 0), in each *)
(* row (axis 1), over the whole data block (axis 2).                       *)
C6_DataSumsToBase ==
    (PositionalPercentages /\ LastCall.ndigits = -1) =>
        LET b == Num(LastCall.base)
        IN  /\ LastCall.axis = 0 =>
                \A j \in 1..NCols(out) : SumSkipNa(DataOfColumn(out, j)) = b
            /\ LastCall.axis = 1 =>
                \A i \in 1..NRows(out) : SumSkipNa(DataOfRow(out, i)) = b
            /\ LastCall.axis = 2 => DataBlockSum(out) = b

\* x is b up to the rounding of floats: |x - b| < 1e-10 * b.
NearBase(x, b) == Less(AbsNum(Sub(x, b)), Mul(b, Tolerance))

(* C6 amended: for the columns (axis 0) and rows (axis 1) whose total is   *)
(* not zero and, for axis 2, when the grand total is not zero, the data    *)
(* cells sum to b up to the rounding of floats, within 1e-10 * b.          *)
C6_DataSumsNearBaseNonZeroTotal ==
    (PositionalPercentages /\ LastCall.ndigits = -1) =>
        LET b == Num(LastCall.base)
            n == NRows(arg)
            m == NCols(arg)
        IN  /\ LastCall.axis = 0 =>
                \A j \in 1..m : arg.cells[n][j] # Zero =>
                    NearBase(SumSkipNa(DataOfColumn(out, j)), b)
            /\ LastCall.axis = 1 =>
                \A i \in 1..n : arg.cells[i][m] # Zero =>
                    NearBase(SumSkipNa(DataOfRow(out, i)), b)
            /\ LastCall.axis = 2 =>
                (arg.cells[n][m] # Zero => NearBase(DataBlockSum(out), b))

\* A row 1, 2 with its total 3, base 100: the percentages are
\* 33.33333333333333 and 66.66666666666666, and sum to 99.99999999999999.
C6_Witness ==
    /\ PositionalPercentages
    /\ LastCall.ndigits = -1
    /\ LastCall.axis = 1
    /\ LastCall.base = 100
    /\ NCols(arg) = 3
    /\ arg.cells[1] = <<Num(1), Num(2), Num(3)>>
    /\ out.cells[1][1] = Mul(Frac(1, 3), Num(100))
    /\ out.cells[1][2] = Mul(Frac(2, 3), Num(100))
    /\ SumSkipNa(DataOfRow(out, 1)) # Num(100)
    /\ NearBase(SumSkipNa(DataOfRow(out, 1)), Num(100))

\* The last call was as_percentages(axis, ndigits >= 0,
\* apportioned_rounding=True), totals by position, after add_totals.
ApportionedCall(axis) ==
    /\ PositionalPercentages
    /\ LastCall.axis = axis
    /\ LastCall.ndigits >= 0
    /\ LastCall.apportioned_rounding = "True"

(* C7 as claimed: axis 0, apportioned rounding, ndigits >= 0, the last row *)
(* holding the column sums: in every column the rounded percentages of the *)
(* data rows sum to exactly base.                                          *)
C7_ColumnsSumToBase ==
    ApportionedCall(0) =>
        \A j \in 1..NCols(out) :
            SumSkipNa(DataOfColumn(out, j)) = Num(LastCall.base)

(* C8: axis 1, apportioned rounding, ndigits >= 0, the last column holding *)
(* the row sums: in every row the rounded percentages of the data columns  *)
(* sum to exactly base.  (Stated for the rows whose total is not zero: a   *)
(* row of zeros has no percentages.)                                       *)
C8_RowsSumToBase ==
    ApportionedCall(1) =>
        \A i \in 1..NRows(out) : arg.cells[i][NCols(arg)] # Zero =>
            SumSkipNa(DataOfRow(out, i)) = Num(LastCall.base)

(* C9: axis 2, apportioned rounding, ndigits >= 0, after                   *)
(* add_totals(axis=2): the rounded percentages of the whole data block sum *)
(* to exactly base.  (Stated for a grand total that is not zero.)          *)
C9_BlockSumsToBase ==
    (ApportionedCall(2) /\ hist[1].axis = 2) =>
        (arg.cells[NRows(arg)][NCols(arg)] # Zero =>
            DataBlockSum(out) = Num(LastCall.base))

\* The test's table: three rows of 100/3 in one column, with add_totals().
ThirdsTable ==
    add_totals(
        DataFrame(SubSeq(IndexLabels, 1, 3), <<ColumnLabels[1]>>,
                  [i \in 1..3 |-> <<Frac(100, 3)>>], NoAttrs),
        2, Totals, None)

\* The data percentages of the test's table, each rounded alone, summed.
ThirdsRoundedSum ==
    SumSkipNa(DataOfColumn(
        as_percentages(ThirdsTable, 0, Pct, None, None, 0, 100, "False"), 1))

(* C10: with apportioned_rounding False and ndigits >= 0 every cell is     *)
(* round(cell / total * base, ndigits) on its own, so the data percentages *)
(* need not sum to base: three values of 100/3 with their total, base 100, *)
(* ndigits 0, give data percentages that sum to 99.                        *)
C10_EachCellRoundedAlone ==
    /\ (PositionalPercentages /\ LastCall.ndigits >= 0
            /\ LastCall.apportioned_rounding = "False") =>
          \A i \in 1..NRows(arg), j \in 1..NCols(arg) :
              out.cells[i][j]
                  = RoundNum(Ratio(arg, LastCall.axis, LastCall.base, i, j),
                             LastCall.ndigits)
    /\ ThirdsRoundedSum = Num(99)

\* Halves of a column total, base 1: each rounds to 0 and the sum is 0.
C10_Witness ==
    /\ PositionalPercentages
    /\ LastCall.ndigits = 0
    /\ LastCall.apportioned_rounding = "False"
    /\ LastCall.axis = 0
    /\ LastCall.base = 1
    /\ arg.cells[1][1] = Num(1)
    /\ arg.cells[NRows(arg)][1] = Num(2)
    /\ out.cells[1][1] = Num(0)
    /\ SumSkipNa(DataOfColumn(out, 1)) = Num(0)

(* C11: should_use_apportioned_rounding is True if and only if the values  *)
(* sum to the totals within 1e-10 along the axis: every column sum against *)
(* the last row (axis 0), every row sum against the last column (axis 1),  *)
(* the sum of the data block against the bottom-right cell (axis 2).       *)
C11_TrueIffSumsMatchTotals ==
    (Called("should_use_apportioned_rounding") /\ ~IsError(out)) =>
        LET n == NRows(arg)
            m == NCols(arg)
            matches(sum, total) == WithinTolerance(Sub(sum, total))
        IN  /\ LastCall.axis = 0 =>
                (out.answer <=> \A j \in 1..m :
                    matches(SumSkipNa(DataOfColumn(arg, j)), arg.cells[n][j]))
            /\ LastCall.axis = 1 =>
                (out.answer <=> \A i \in 1..n :
                    matches(SumSkipNa(DataOfRow(arg, i)), arg.cells[i][m]))
            /\ LastCall.axis = 2 =>
                (out.answer <=> matches(DataBlockSum(arg), arg.cells[n][m]))

\* Axis 0 on a table whose first column sums to its total and whose second
\* column does not: the answer is False.
C11_Witness ==
    /\ Called("should_use_apportioned_rounding")
    /\ LastCall.axis = 0
    /\ NRows(arg) = 2 /\ NCols(arg) = 2
    /\ arg.cells[1][1] = arg.cells[2][1]
    /\ arg.cells[1][2] = Num(1) /\ arg.cells[2][2] = Num(2)
    /\ out = [answer |-> FALSE]

\* The keys listed by ignore_keys: none for None, the str itself for a str.
ListedKeys(ignore_keys) ==
    IF IsNone(ignore_keys) THEN {}
    ELSE IF IsStr(ignore_keys) THEN {ignore_keys}
    ELSE {ignore_keys.items[k] : k \in 1..Len(ignore_keys.items)}

\* value equals a listed key or, both being strings, starts with one.
Matches(value, ignore_keys) ==
    \E key \in ListedKeys(ignore_keys) :
        \/ key = value
        \/ /\ IsStr(value) /\ IsStr(key)
           /\ Len(key.v) <= Len(value.v)
           /\ SubSeq(value.v, 1, Len(key.v)) = key.v

\* get_data_mask returned the mask of a hierarchical (flat) index.
MaskOfMultiIndex == Called("get_data_mask") /\ IsMultiIndex(arg.index)
MaskOfFlatIndex == Called("get_data_mask") /\ ~IsMultiIndex(arg.index)

(* C12 as claimed: on a hierarchical index a key tuple is ignored only if  *)
(* every level's value equals a listed key or starts with one; a tuple     *)
(* with a level that matches no key is kept.                               *)
C12_IgnoredOnlyIfEveryLevelMatches ==
    MaskOfMultiIndex =>
        \A i \in 1..Len(arg.index) :
            (\E l \in 1..Len(arg.index[i].levels) :
                 ~Matches(arg.index[i].levels[l], arg.ignore_keys))
                => out[i]

(* C12 amended: a key tuple is ignored if and only if at least one level's *)
(* value equals a listed key or starts with one; it is kept only when no   *)
(* level matches.                                                          *)
C12_IgnoredIffSomeLevelMatches ==
    MaskOfMultiIndex =>
        \A i \in 1..Len(arg.index) :
            out[i] <=> \A l \in 1..Len(arg.index[i].levels) :
                           ~Matches(arg.index[i].levels[l], arg.ignore_keys)

\* The tuple ("Subtotals", "North") under ignore_keys ["Subtotals"]: one
\* level matches, the other does not, and the tuple is ignored.
C12_Witness ==
    /\ MaskOfMultiIndex
    /\ arg.ignore_keys = List(<<Subtotals>>)
    /\ arg.index = <<Tuple(<<North, North>>), Tuple(<<Subtotals, North>>)>>
    /\ out = <<TRUE, FALSE>>

(* C13: on a flat index a key is ignored exactly when it equals a listed   *)
(* key or, being a string, starts with a listed string key, case-          *)
(* sensitively: ["Subtotals"] ignores "Subtotals Region_A" and             *)
(* "SubtotalsX" but not "subtotals"; a non-string key is ignored only on   *)
(* equality.                                                               *)
C13_IgnoredIffEqualOrPrefixed ==
    /\ MaskOfFlatIndex =>
          \A i \in 1..Len(arg.index) :
              out[i] <=> ~Matches(arg.index[i], arg.ignore_keys)
    /\ get_data_mask(<<SubtotalsRegionA, SubtotalsX, LowerSubtotals, North>>,
                     List(<<Subtotals>>)) = <<FALSE, FALSE, TRUE, TRUE>>
    /\ get_data_mask(<<IntKey(12), IntKey(1), Twelve>>,
                     List(<<IntKey(1), One>>)) = <<TRUE, FALSE, FALSE>>

\* "SubtotalsX" is ignored by its prefix and "Sub" is kept.
C13_Witness ==
    /\ MaskOfFlatIndex
    /\ arg.ignore_keys = List(<<Subtotals>>)
    /\ arg.index = <<SubtotalsX, ShortSub>>
    /\ out = <<FALSE, TRUE>>

(* C14: get_data_mask returns one boolean per index position, and the mask *)
(* is all true when ignore_keys is None, when it is the empty list, and    *)
(* when no listed key equals or prefixes a value of the index.             *)
C14_OneBooleanPerPosition ==
    Called("get_data_mask") =>
        /\ Len(out) = Len(arg.index)
        /\ \A i \in 1..Len(out) : out[i] \in BOOLEAN
        /\ (\/ IsNone(arg.ignore_keys)
            \/ arg.ignore_keys = List(<<>>)
            \/ \A i \in 1..Len(arg.index) :
                   IF IsMultiIndex(arg.index)
                   THEN \A l \in 1..Len(arg.index[i].levels) :
                           ~Matches(arg.index[i].levels[l], arg.ignore_keys)
                   ELSE ~Matches(arg.index[i], arg.ignore_keys))
              => \A i \in 1..Len(out) : out[i]

\* A single str key that is in no way a prefix of the two index values.
C14_Witness ==
    /\ Called("get_data_mask")
    /\ arg.ignore_keys = Subtotals
    /\ arg.index = <<ShortSub, LowerSubtotals>>
    /\ out = <<TRUE, TRUE>>

\* The rows of df whose label matches no label of the set keys.
RowsNotMatching(df, keys) ==
    LocRows(df, [i \in 1..NRows(df) |->
                    ~Matches(df.index[i], List(SetToSeq(keys)))])

(* C15: drop_totals called without ignore_keys on the table add_totals     *)
(* returned does not fail: it takes its keys from the labels the tagged    *)
(* transform recorded under "totals" and returns the table without the     *)
(* rows that match them.                                                   *)
C15_DropTotalsUsesTrackedLabels ==
    (Called("drop_totals") /\ IsNone(LastCall.ignore_keys)) =>
        /\ ~IsError(out)
        /\ out = RowsNotMatching(arg, GetLabels(arg.attrs, "totals"))

\* drop_totals(add_totals(T, axis=0, label=L), ignore_keys=L) has returned.
RoundTrip ==
    /\ Called("drop_totals")
    /\ hist[1].op = "add_totals"
    /\ hist[1].axis = 0
    /\ LastCall.ignore_keys = hist[1].label
    /\ hist[1].label \notin Labels(hist[1].data.index)

\* The table is T again: its rows in order, its columns, its cells.
RestoresRows(T) ==
    /\ ~IsError(out)
    /\ out.index = T.index
    /\ out.columns = T.columns
    /\ out.cells = T.cells

(* C16 as claimed: for every table T and label L that is not a row label   *)
(* of T, drop_totals(add_totals(T, axis=0, label=L), ignore_keys=L) has    *)
(* exactly the rows of T, in order and with the same cells.                *)
C16_RoundTripRestoresRows == RoundTrip => RestoresRows(hist[1].data)

(* C16 amended: the round trip restores T when L is not a row label of T   *)
(* and no string row label of T starts with L; in every case drop_totals   *)
(* with explicit keys only filters rows: it returns, in order and with     *)
(* cells and columns unchanged, the rows whose label neither equals a key  *)
(* nor starts with one.                                                    *)
C16_RoundTripWithoutPrefixedLabels ==
    /\ (RoundTrip /\ \A i \in 1..NRows(hist[1].data) :
                        ~Matches(hist[1].data.index[i], hist[1].label))
           => RestoresRows(hist[1].data)
    /\ (Called("drop_totals") /\ ~IsNone(LastCall.ignore_keys))
           => out = RowsNotMatching(arg, {LastCall.ignore_keys})

\* T has the rows a and b, and they come back after 'Totals' was added and
\* dropped.
C16_Witness ==
    /\ RoundTrip
    /\ hist[1].label = Totals
    /\ hist[1].data.index = <<IndexLabels[1], IndexLabels[2]>>
    /\ NRows(arg) = 3
    /\ RestoresRows(hist[1].data)

\* A transform tagged with a category has returned a table: add_totals is
\* tagged 'totals', the DataFrame as_percentages is tagged 'percentages'.
TaggedReturned ==
    (Called("add_totals") \/ Called("as_percentages")) /\ ~IsError(out)
TaggedCategory == IF Called("add_totals") THEN "totals" ELSE "percentages"

\* The non-null values of the category's key-label parameters in the call.
UsedLabels ==
    IF Called("add_totals") THEN Tracked(LastCall.label) ELSE Tracked(Pct)

(* C17: after a tagged transform of category c returns, the metadata set   *)
(* of c is the set the table already carried for c united with the         *)
(* non-null labels the call used; no label is lost and the sets of the     *)
(* other categories are unchanged.                                         *)
C17_LabelsAreUnited ==
    TaggedReturned =>
        /\ DOMAIN out.attrs = DOMAIN arg.attrs \union {TaggedCategory}
        /\ out.attrs[TaggedCategory] =
               GetLabels(arg.attrs, TaggedCategory) \union UsedLabels
        /\ GetLabels(arg.attrs, TaggedCategory) \subseteq
               out.attrs[TaggedCategory]
        /\ \A d \in DOMAIN arg.attrs \ {TaggedCategory} :
               out.attrs[d] = arg.attrs[d]

\* add_totals(label='Grand') on a table that carries {'Totals'}: the set
\* becomes {'Totals', 'Grand'}.
C17_Witness ==
    /\ Called("add_totals")
    /\ LastCall.label = Grand
    /\ arg.attrs = [c \in {"totals"} |-> {Totals}]
    /\ out.attrs = [c \in {"totals"} |-> {Totals, Grand}]

(* C18: the label tracker never raises when the table the wrapped          *)
(* transform returned has no attrs attribute: it creates an empty slot,    *)
(* records the labels there and returns the transform's result.            *)
C18_CreatesMissingSlot ==
    Called("tagged_without_attrs") =>
        /\ ~IsError(out)
        /\ out.index = arg.index
        /\ out.columns = arg.columns
        /\ out.cells = arg.cells
        /\ out.attrs = [c \in {"totals"} |-> Tracked(LastCall.label)]

\* The column labels of df that match no key of the set keys, in order.
ColumnsNotMatching(df, keys) ==
    LocColumns(df, [j \in 1..NCols(df) |->
                       ~Matches(df.columns[j], List(SetToSeq(keys)))]).columns

(* C19: the DataFrame as_percentages resolves the margin keys as the       *)
(* explicit ignore_keys united with the labels tracked under               *)
(* "percentages": every column that matches one of them is masked out and  *)
(* is no column of the result.                                             *)
C19_TrackedPercentagesMasked ==
    (Called("as_percentages") /\ ~IsError(out)) =>
        out.columns =
            ColumnsNotMatching(arg, ListedKeys(LastCall.ignore_keys)
                                    \union GetLabels(arg.attrs, "percentages"))

\* Some level of key equals a label of the set keys or, both being strings,
\* starts with one; a flat key is its one level.
KeyMatches(key, keys) ==
    \E l \in 1..Len(LevelsOf(key)) :
        Matches(LevelsOf(key)[l], List(SetToSeq(keys)))

\* The rows of df whose key matches no label of the set keys.
DataRows(df, keys) ==
    LocRows(df, AsTuple([i \in 1..NRows(df) |->
                            ~KeyMatches(df.index[i], keys)]))

\* The sum, over the rows of df whose key matches no label of the set keys,
\* of column j.
SumOfDataRows(df, keys, j) == SumSkipNa(Column(DataRows(df, keys), j))

\* The rows of df whose key has g at its outermost level.
RowsOfGroup(df, g) ==
    LocRows(df, AsTuple([i \in 1..NRows(df) |-> LevelsOf(df.index[i])[1] = g]))

\* The earlier calls of the chain that were add_totals on axis 0 or 2: each
\* appended a totals row under its label.
EarlierTotals ==
    {e \in 1..(Len(hist) - 1) :
        hist[e].op = "add_totals" /\ hist[e].axis \in {0, 2}}

\* The totals row the last call, add_totals, appended holds the sums over
\* the rows that match no tracked label, which are not the sums over all
\* rows.
LaterTotalsRow ==
    /\ NRows(out) = NRows(arg) + 1
    /\ out.index[NRows(out)] = MarginKey(arg.index, LastCall.label)
    /\ \A j \in 1..NCols(arg) :
           /\ out.cells[NRows(out)][j] =
                  SumOfDataRows(arg, GetLabels(arg.attrs, "totals"), j)
           /\ out.cells[NRows(out)][j] # SumSkipNa(Column(arg, j))

\* Every row the last call, add_subtotals, inserted holds, in the columns of
\* its input, the sums over the rows of its group that match no tracked
\* label; in the group of the totals row the first call appended, a row of
\* sums over data, these are not the sums over all rows of the group.
LaterSubtotalRows ==
    \A i \in 1..NRows(out) : \A j \in 1..NCols(arg) :
        out.index[i] \notin Labels(arg.index) =>
            /\ out.cells[i][Position(out.columns, arg.columns[j], 1)] =
                   SumOfDataRows(RowsOfGroup(arg, out.index[i].levels[1]),
                                 GetLabels(arg.attrs, "totals"), j)
            /\ (1 \in EarlierTotals
                    /\ hist[1].label = out.index[i].levels[1]) =>
                   out.cells[i][Position(out.columns, arg.columns[j], 1)] #
                       SumSkipNa(Column(
                           RowsOfGroup(arg, out.index[i].levels[1]), j))

(* C20: after add_totals(axis=0, label=L) the metadata records L under     *)
(* "totals"; a later add_totals or add_subtotals without ignore_keys finds *)
(* L among the tracked labels and passes it among the keys to ignore to    *)
(* the sum aggregation, and the row L is counted in no later total or      *)
(* subtotal: a later totals row holds the sums over the rows that match no *)
(* tracked label, and every later subtotal row the sums over the rows of   *)
(* its group that match no tracked label.                                  *)
C20_EarlierTotalsNotCounted ==
    /\ (Called("add_totals") /\ ~IsError(out))
           => LastCall.label \in GetLabels(out.attrs, "totals")
    /\ \A e \in EarlierTotals :
           /\ hist[e].label \in GetLabels(arg.attrs, "totals")
           /\ hist[e].label \in
                  KeySet(totals_resolve_ignored_keys(arg, LastCall.axis, None))
    /\ (EarlierTotals # {} /\ LastCall.axis \in {0, 2} /\ ~IsError(out)) =>
           /\ Called("add_totals") => LaterTotalsRow
           /\ Called("add_subtotals") => LaterSubtotalRows

\* 'Totals' was added below the rows ('a', 'c') and ('a', 'd'), then
\* 'Grand', then the subtotals of level 0: the row 'Grand' repeats the row
\* 'Totals' instead of doubling it, and the subtotal of the group 'a' is the
\* sum of its two rows, inserted below them.
C20_Witness ==
    /\ Len(hist) = 3
    /\ hist[1].op = "add_totals" /\ hist[1].axis = 0
    /\ hist[1].label = Totals
    /\ hist[2].op = "add_totals" /\ hist[2].axis = 0
    /\ hist[2].label = Grand
    /\ hist[3].op = "add_subtotals" /\ hist[3].axis = 0
    /\ hist[3].level.t = "int" /\ hist[3].skip_single_rows
    /\ arg.index = <<TotalsRowKeys[1], TotalsRowKeys[2],
                     Tuple(<<Totals, Fill>>), Tuple(<<Grand, Fill>>)>>
    /\ arg.cells[4] = arg.cells[3]
    /\ ~IsError(out)
    /\ out.index[3] = Tuple(<<IndexLabels[1], Subtotals>>)
    /\ out.cells[3] = arg.cells[3]
    /\ out.index[4] = Tuple(<<Totals, Fill>>)
    /\ out.cells[4] = arg.cells[3]

\* The table of the claim's example: {'A': [10, 20, 30], 'B': [15, 25, 20]}.
ExampleTable ==
    DataFrame(<<IndexLabels[1], IndexLabels[2], IndexLabels[3]>>,
              <<ColumnLabels[1], ColumnLabels[2]>>,
              <<<<Num(10), Num(15)>>, <<Num(20), Num(25)>>,
                <<Num(30), Num(20)>>>>, NoAttrs)

(* C21: add_totals with axis=2 equals add_totals(axis=0) followed by       *)
(* add_totals(axis=1) with the same label: the added row holds the column  *)
(* sums of the data rows, the added column the row sums of the data        *)
(* columns, and the bottom-right cell the sum of the totals row, the grand *)
(* total of the data cells; the example gives the totals row [60, 60] and  *)
(* the grand total 120.                                                    *)
C21_BothIsRowsThenColumns ==
    /\ (Len(hist) = 2 /\ Called("add_totals") /\ hist[1].op = "add_totals"
            /\ hist[1].axis = 0 /\ LastCall.axis = 1
            /\ LastCall.label = hist[1].label)
           => out = add_totals(hist[1].data, 2, LastCall.label, None)
    /\ (Len(hist) = 1 /\ Called("add_totals") /\ LastCall.axis = 2) =>
           LET n == NRows(arg)
               m == NCols(arg)
           IN  /\ out.index = Append(arg.index, LastCall.label)
               /\ out.columns = Append(arg.columns, LastCall.label)
               /\ \A i \in 1..n, j \in 1..m : out.cells[i][j] = arg.cells[i][j]
               /\ \A j \in 1..m :
                      out.cells[n + 1][j] = SumSkipNa(Column(arg, j))
               /\ \A i \in 1..n :
                      out.cells[i][m + 1] = SumSkipNa(Row(arg, i))
               /\ out.cells[n + 1][m + 1] =
                      SumSkipNa(SubSeq(out.cells[n + 1], 1, m))
               /\ out.cells[n + 1][m + 1] =
                      SumSkipNa([i \in 1..n |-> SumSkipNa(Row(arg, i))])
    /\ add_totals(ExampleTable, 2, Totals, None).cells =
           <<<<Num(10), Num(15), Num(25)>>, <<Num(20), Num(25), Num(45)>>,
             <<Num(30), Num(20), Num(50)>>, <<Num(60), Num(60), Num(120)>>>>

\* Rows a and b: 'Totals' added below them, then 'Totals' added beside the
\* columns; the corner is the grand total.
C21_Witness ==
    /\ Len(hist) = 2 /\ Called("add_totals") /\ hist[1].op = "add_totals"
    /\ hist[1].axis = 0 /\ LastCall.axis = 1
    /\ hist[1].label = Totals /\ LastCall.label = Totals
    /\ NRows(hist[1].data) = 2
    /\ out.index[3] = Totals /\ out.columns[3] = Totals
    /\ out.cells[3][3] = GrandSum(hist[1].data)

\* add_percentages has returned a table for the second time in a row.
SecondAddPercentages ==
    /\ Len(hist) = 2
    /\ Called("add_percentages")
    /\ ~IsError(arg)
    /\ ~IsError(out)

(* C22: repeated add_percentages does not nest: applied to the table an    *)
(* earlier add_percentages returned, the result has as many column levels  *)
(* as its input.                                                           *)
C22_RepeatedCallDoesNotNest ==
    SecondAddPercentages => NLevels(out.columns) = NLevels(arg.columns)

\* A column key with its outermost level moved innermost.
Rotated(key) == Tuple(Tail(LevelsOf(key)) \o <<Head(LevelsOf(key))>>)

\* The columns of df as pairs of key and cells.
ColumnSet(df) == {<<df.columns[j], Column(df, j)>> : j \in 1..NCols(df)}

\* What the call that has just returned gives with interleaf=False.
WithoutInterleaf ==
    add_percentages(arg, LastCall.axis, LabelN, Pct, None,
                    LastCall.ignore_keys, -1, 1, "True", FALSE)

InterleafReturned ==
    /\ Called("add_percentages")
    /\ LastCall.interleaf
    /\ ~IsError(arg)
    /\ ~IsError(WithoutInterleaf)

\* out holds the columns of flat, the n/pct level innermost, every
\* percentage column right after its source column, and the outer levels in
\* the order of the input's columns.
InterleafOf(flat) ==
    /\ ~IsError(out)
    /\ NCols(out) = NCols(flat)
    /\ ColumnSet(out) =
           {<<Rotated(flat.columns[j]), Column(flat, j)>> :
               j \in 1..NCols(flat)}
    /\ \A j \in 1..NCols(out) :
           LET levels == LevelsOf(out.columns[j])
               inner == Len(levels)
           IN  levels[inner] = LabelN =>
                   /\ j < NCols(out)
                   /\ out.columns[j + 1] =
                          Tuple([levels EXCEPT ![inner] = Pct])
    /\ Unique(AsTuple([j \in 1..NCols(out) |->
                  SubSeq(LevelsOf(out.columns[j]), 1,
                         NLevels(out.columns) - 1)]))
           = Unique(AsTuple([j \in 1..NCols(arg) |-> LevelsOf(arg.columns[j])]))

(* C23: add_percentages with interleaf=True returns the columns and values *)
(* it returns with interleaf=False, reordered so that each percentage      *)
(* column sits next to its source column and the original columns keep the *)
(* order they had in the input.                                            *)
C23_InterleafReordersOnly == InterleafReturned => InterleafOf(WithoutInterleaf)

(* C24: every operation that takes an axis selector fails with an          *)
(* InvalidAxis error for a selector outside 0, 1, 2, 'index', 'columns',   *)
(* 'both'; no operation or wrapper treats an invalid selector as an axis.  *)
C24_InvalidAxisAlwaysRaised ==
    (hist # <<>> /\ ~IsValidAxis(LastCall.axis)) => out = Raise("InvalidAxis")

(* C25: no transform changes its input or shares metadata with it: after   *)
(* any sequence of add_totals, add_subtotals, as_percentages,              *)
(* add_percentages and drop_totals calls every table passed as input has   *)
(* the cells, labels and margin-label metadata it had before the call, and *)
(* the table returned is another object than the input, so that its label  *)
(* sets are never the mutable objects recorded on the input.               *)
C25_InputsUntouchedNothingShared ==
    \A c \in 1..Len(hist) :
        hist[c].result # 0 =>
            /\ arg[hist[c].data] = hist[c].before
            /\ hist[c].result # hist[c].data


\* The sum of the first i elements of v, nulls counted as 0.
Prefix(v, i) == SumSkipNa(SubSeq(v, 1, i))

(* C26: for ndigits >= 0 round_apportioned gives, at every non-null        *)
(* position i, round(prefix_i, ndigits) - round(prefix_(i-1), ndigits),    *)
(* prefix_i being the sum of the elements up to i with nulls counted as 0  *)
(* and the rounded prefix before the first element being 0.                *)
C26_RoundedPrefixDifferences ==
    (Called("round_apportioned") /\ LastCall.ndigits >= 0) =>
        \A i \in 1..Len(arg.vals) :
            ~IsNaN(arg.vals[i]) =>
                out.vals[i]
                    = Sub(RoundNum(Prefix(arg.vals, i), LastCall.ndigits),
                          IF i = 1 THEN Zero
                          ELSE RoundNum(Prefix(arg.vals, i - 1),
                                        LastCall.ndigits))

\* An element right after a null, the prefix before it not rounding to 0,
\* that comes out different from its own rounding.
C26_Witness ==
    /\ Called("round_apportioned")
    /\ LastCall.ndigits >= 0
    /\ \E i \in 2..Len(arg.vals) :
          /\ IsNaN(arg.vals[i - 1])
          /\ ~IsNaN(arg.vals[i])
          /\ RoundNum(Prefix(arg.vals, i - 1), LastCall.ndigits) # Zero
          /\ out.vals[i] # RoundNum(arg.vals[i], LastCall.ndigits)


\* The values of df sum to its totals along the axis within 1e-10, the
\* totals taken by position.
ValuesSumToTotals(df, axis) ==
    LET matches(sum, total) == WithinTolerance(Sub(sum, total))
    IN  IF axis = 0
        THEN \A j \in 1..NCols(df) :
                 matches(SumSkipNa(DataOfColumn(df, j)),
                         df.cells[NRows(df)][j])
        ELSE IF axis = 1
        THEN \A i \in 1..NRows(df) :
                 matches(SumSkipNa(DataOfRow(df, i)), df.cells[i][NCols(df)])
        ELSE matches(DataBlockSum(df), df.cells[NRows(df)][NCols(df)])

\* Column j of the unrounded percentages of df.
RatioColumn(df, axis, base, j) ==
    AsTuple([i \in 1..NRows(df) |-> Ratio(df, axis, base, i, j)])

\* The position of the total of a Series (0 if there is none), its elements
\* without the total, and its unrounded percentages.
TotalPosition(s, label_totals) ==
    IF IsNone(label_totals) THEN Len(s.vals)
    ELSE Position(s.index, label_totals, 1)
WithoutTotal(s, label_totals) ==
    LET p == TotalPosition(s, label_totals)
    IN  SubSeq(s.vals, 1, p - 1) \o SubSeq(s.vals, p + 1, Len(s.vals))
SeriesRatios(s, label_totals, base) ==
    AsTuple([i \in 1..Len(s.vals) |->
        Mul(Div(s.vals[i], s.vals[TotalPosition(s, label_totals)]),
            Num(base))])

\* The rounding asked for: the explicit choice, or for None whether the
\* values sum to the totals.
RoundingAsked(apportioned_rounding, sums_match) ==
    IF apportioned_rounding = "None" THEN sums_match
    ELSE apportioned_rounding = "True"

(* C27: for ndigits >= 0 and apportioned_rounding None, as_percentages     *)
(* rounds apportioned if and only if the values sum to their totals within *)
(* 1e-10 (DataFrame: along the axis; Series: the elements without the      *)
(* total against the total) and rounds each cell on its own otherwise; an  *)
(* explicit True or False decides by itself.                               *)
C27_HeuristicOnlyWhenNone ==
    /\ (PercentagesReturned /\ IsNone(LastCall.label_totals)
            /\ LastCall.ndigits >= 0) =>
          LET asked == RoundingAsked(LastCall.apportioned_rounding,
                                     ValuesSumToTotals(arg, LastCall.axis))
          IN  \A j \in 1..NCols(arg) :
                  LET pcts == RatioColumn(arg, LastCall.axis, LastCall.base, j)
                  IN  Column(out, j)
                          = IF asked
                            THEN round_apportioned(pcts, LastCall.ndigits)
                            ELSE RoundSeq(pcts, LastCall.ndigits)
    /\ (Called("as_percentages_series") /\ ~IsError(out)
            /\ LastCall.ndigits >= 0) =>
          LET total == arg.vals[TotalPosition(arg, LastCall.label_totals)]
              values == WithoutTotal(arg, LastCall.label_totals)
              asked == RoundingAsked(
                           LastCall.apportioned_rounding,
                           WithinTolerance(Sub(SumSkipNa(values), total)))
              pcts == SeriesRatios(arg, LastCall.label_totals, LastCall.base)
          IN  out.vals = IF asked
                         THEN round_apportioned(pcts, LastCall.ndigits)
                         ELSE RoundSeq(pcts, LastCall.ndigits)

\* apportioned_rounding None on a table whose first column does not sum to
\* its last row: each cell is rounded on its own, and apportioned rounding
\* would have given another table.
C27_Witness ==
    /\ PercentagesReturned
    /\ hist[1].op = "as_percentages"
    /\ LastCall.apportioned_rounding = "None"
    /\ LastCall.ndigits = 0
    /\ LastCall.axis = 0
    /\ ~ValuesSumToTotals(arg, 0)
    /\ \E j \in 1..NCols(arg) :
          /\ Column(out, j) = RoundSeq(RatioColumn(arg, 0, LastCall.base, j), 0)
          /\ Column(out, j)
                 # round_apportioned(RatioColumn(arg, 0, LastCall.base, j), 0)


\* |a - b| * k <= 1 in exact arithmetic, for finite a and b and a natural k
\* of one limb.
ExactWithin(a, b, k) ==
    LET e == Min(a[3], b[3])
        x == BShl(a[2], a[3] - e)
        y == BShl(b[2], b[3] - e)
        m == IF a[1] # b[1] THEN BAdd(x, y)
             ELSE IF BCmp(x, y) >= 0 THEN BSub(x, y) ELSE BSub(y, x)
        scaled == BMulSmall(m, k)
    IN  IF e >= 0 THEN BCmp(BShl(scaled, e), <<1>>) <= 0
        ELSE BCmp(scaled, BShl(<<1>>, -e)) <= 0

(* C28: for ndigits >= 0 every non-null element round_apportioned returns  *)
(* differs from the unrounded element it stands for by at most one unit of *)
(* the last kept digit, 10^-ndigits.                                       *)
C28_WithinOneUnit ==
    (Called("round_apportioned") /\ LastCall.ndigits >= 0) =>
        \A i \in 1..Len(arg.vals) :
            ~IsNaN(arg.vals[i]) =>
                ExactWithin(out.vals[i], arg.vals[i], Pow10(LastCall.ndigits))


\* The input of the last call without the columns its data mask ignores.
MaskedInput ==
    LocColumns(arg, [j \in 1..NCols(arg) |->
        ~Matches(arg.columns[j],
                 pct_resolve_ignored_keys(arg, LastCall.axis,
                                          LastCall.ignore_keys))])

\* The cells of df that hold the totals of the axis, by position.
TotalsCells(df, axis) ==
    IF axis = 0 THEN {<<NRows(df), j>> : j \in 1..NCols(df)}
    ELSE IF axis = 1 THEN {<<i, NCols(df)>> : i \in 1..NRows(df)}
    ELSE {<<NRows(df), NCols(df)>>}

(* C29 as claimed: DataFrame as_percentages keeps the totals: the result   *)
(* has the row and column labels of the masked input, in order, and with   *)
(* ndigits = -1 every cell of the totals row (axis 0), of the totals       *)
(* column (axis 1), or the bottom-right cell (axis 2) equals base.         *)
C29_TotalsKeptEqualBase ==
    PercentagesReturned =>
        /\ out.index = arg.index
        /\ out.columns = MaskedInput.columns
        /\ LastCall.ndigits = -1 =>
              \A c \in TotalsCells(out, LastCall.axis) :
                  out.cells[c[1]][c[2]] = Num(LastCall.base)

(* C29 amended: the same labels, and with ndigits = -1 every totals cell   *)
(* whose total is not zero equals base; a total of zero gives a null.      *)
C29_TotalsKeptNonZeroEqualBase ==
    PercentagesReturned =>
        /\ out.index = arg.index
        /\ out.columns = MaskedInput.columns
        /\ LastCall.ndigits = -1 =>
              \A c \in TotalsCells(out, LastCall.axis) :
                  out.cells[c[1]][c[2]]
                      = IF MaskedInput.cells[c[1]][c[2]] = Zero THEN NaN
                        ELSE Num(LastCall.base)

\* Column B ignored on a table of two rows: the result keeps both rows and
\* column A alone, its totals row at base 100 holding 100.
C29_Witness ==
    /\ PercentagesReturned
    /\ LastCall.ignore_keys = ColumnLabels[2]
    /\ LastCall.axis = 0
    /\ LastCall.ndigits = -1
    /\ LastCall.base = 100
    /\ NRows(arg) = 2 /\ NCols(arg) = 2
    /\ out.columns = <<ColumnLabels[1]>>
    /\ out.index = arg.index
    /\ arg.cells[1][1] = Num(1)
    /\ out.cells[2][1] = Num(100)
    /\ out.cells[1][1] = Num(50)


(* C30: column keys stay unique under chaining: after any number of        *)
(* successive add_percentages calls on a table whose column keys are       *)
(* unique, no full column key occurs twice in the result.                  *)
C30_ColumnKeysStayUnique ==
    (Called("add_percentages") /\ ~IsError(out)
         /\ Distinct(hist[1].data.columns)) =>
        Distinct(out.columns)

====
